---- MODULE Spec2Model ----
(***************************************************************************)
(* A model of the book store of server.js: the in-memory collection        *)
(* db.books, the data file written by atomicWrite, validateBook,           *)
(* createBook, updateBook, deleteBook, the bulk import route and the       *)
(* request handlers that reach them.                                       *)
(*                                                                         *)
(* JavaScript values are tagged records [k, n, s, t, a]:                   *)
(*   k = "abs"   the key is not in the object                              *)
(*   k = "null"  null                                                      *)
(*   k = "num"   the number n (a rating is held in hundredths)             *)
(*   k = "str"   a string: the text t, or the decimal digits s when the    *)
(*               string is a numeral ("11" is s = <<1, 1>>)                *)
(*   k = "arr"   the array a of strings                                    *)
(***************************************************************************)
EXTENDS Integers, Sequences, FiniteSets, Bags, TLC

VARIABLES
    up,        \* the server process runs (the module's top level has completed)
    books,     \* db.books, the in-memory collection
    file,      \* data.json:     [st: "none" | "ok" | "torn", data]
    tmp,       \* data.json.tmp, which is written and renamed but never read:
               \* "none" | "ok" (written in full) | "torn"
    clock,     \* what nowISO() returns
    reqs,      \* per client: the PUT request whose body is being read, or its response
    running,   \* the client whose bulk handler holds the call stack, or NoReq
    bulk,      \* the running bulk import: [mode, items, idx, added]
    last,      \* the response of the handler that completed last
    served,    \* the number of requests whose handler has started on the store
    asked,     \* url.searchParams of the GET /api/books request in flight
    ipHits,    \* the rate limiter's Map: per IP, the times of its requests
    log,       \* per IP and time: the requests made and the requests served
               \* (a history value: the access log with the status codes)
    form,      \* per browser tab: the id and version fields of #book-form
    state      \* the list view of a tab: app.js's `state`, with the rows
               \* shown, the search timer and the responses on their way

vars == <<up, books, file, tmp, clock, reqs, running, bulk, last, served, asked,
          ipHits, log, form, state>>

-----------------------------------------------------------------------------
(* Bounds of the model *)

\* requests handled in one run
MaxReq == 2

\* the largest value of the clock
MaxClock == 1

\* the most pages a caller asks for
MaxPages == 5

Clients == {"c1", "c2"}

NoReq == "none"

-----------------------------------------------------------------------------
(* JavaScript values *)

Absent == [k |-> "abs", n |-> 0, s |-> <<>>, t |-> "", a |-> <<>>]

Null == [k |-> "null", n |-> 0, s |-> <<>>, t |-> "", a |-> <<>>]

Num(x) == [k |-> "num", n |-> x, s |-> <<>>, t |-> "", a |-> <<>>]

Txt(x) == [k |-> "str", n |-> 0, s |-> <<>>, t |-> x, a |-> <<>>]

Digits(d) == [k |-> "str", n |-> 0, s |-> d, t |-> "", a |-> <<>>]

Arr(x) == [k |-> "arr", n |-> 0, s |-> <<>>, t |-> "", a |-> x]

\* `k in obj`
Has(v) == v.k # "abs"

\* `v != null`: the key is there and its value is not null
NotNullish(v) == v.k \notin {"abs", "null"}

\* the truthiness `!v`, `v || d` and `v && w` test
Truthy(v) ==
    \/ v.k = "num" /\ v.n # 0
    \/ v.k = "str" /\ (v.t # "" \/ v.s # <<>>)
    \/ v.k = "arr"

IsString(v) == v.k = "str"

RECURSIVE DecimalValue(_)
DecimalValue(d) ==
    IF d = <<>> THEN 0
    ELSE 10 * DecimalValue(SubSeq(d, 1, Len(d) - 1)) + d[Len(d)]

\* Number(v): [nan, n]. A numeral string is its decimal value, the empty
\* string and null are 0, any other text and any array of the model are NaN.
ToNumber(v) ==
    CASE v.k = "num" -> [nan |-> FALSE, n |-> v.n]
      [] v.k = "null" -> [nan |-> FALSE, n |-> 0]
      [] v.k = "str" /\ v.t = "" -> [nan |-> FALSE, n |-> DecimalValue(v.s)]
      [] v.k = "arr" /\ v.a = <<>> -> [nan |-> FALSE, n |-> 0]
      [] OTHER -> [nan |-> TRUE, n |-> 0]

\* `v + 1` as `b.version += 1` computes it: a number is incremented, null
\* counts as 0, and a string is concatenated with "1".
PlusOne(v) ==
    CASE v.k = "num" -> Num(v.n + 1)
      [] v.k = "null" -> Num(1)
      [] v.k = "str" /\ v.t = "" -> Digits(Append(v.s, 1))
      [] OTHER -> v

\* `x ?? null`
OrNull(v) == IF NotNullish(v) THEN v ELSE Null

-----------------------------------------------------------------------------
(* The code's constants *)

\* rating bounds, in hundredths: `n < 0 || n > 5`
RatingMax == 500

\* `n < 0 || n > 3000`
YearMax == 3000

\* `.slice(0, 20)`
TagCap == 20

\* the author createBook gives when the input has none
UnknownAuthor == Txt("Unknown")

-----------------------------------------------------------------------------
(* validateBook *)

\* An input object: the seven keys validateBook copies; a key that is not in
\* the object is Absent. Keys outside the whitelist are never read.
Input(id, title, author, year, rating, tags, version) ==
    [id |-> id, title |-> title, author |-> author, year |-> year,
     rating |-> rating, tags |-> tags, version |-> version]

EmptyInput == Input(Absent, Absent, Absent, Absent, Absent, Absent, Absent)

TitleProblem == "title is required (string)"

YearProblem == "year must be integer 0..3000"

RatingProblem == "rating must be 0..5"

TagsProblem == "tags must be an array of strings"

\* Number(out.rating) in hundredths: a numeral string counts its units
RatingNumber(v) ==
    IF v.k = "num" THEN ToNumber(v)
    ELSE [nan |-> ToNumber(v).nan, n |-> 100 * ToNumber(v).n]

\* Math.round(n * 10) / 10, in hundredths (n >= 0 here)
RoundTenth(h) == ((h + 5) \div 10) * 10

YearOk(v) == ~ToNumber(v).nan /\ ToNumber(v).n >= 0 /\ ToNumber(v).n <= YearMax

RatingOk(v) ==
    ~RatingNumber(v).nan /\ RatingNumber(v).n >= 0 /\ RatingNumber(v).n <= RatingMax

Take(seq, k) == SubSeq(seq, 1, IF Len(seq) < k THEN Len(seq) ELSE k)

\* validateBook(input, { partial }): [ok, value, problems]
validateBook(input, partial) ==
    LET titleBad == ~partial /\ (~Truthy(input.title) \/ ~IsString(input.title))
        yearBad == NotNullish(input.year) /\ ~YearOk(input.year)
        ratingBad == NotNullish(input.rating) /\ ~RatingOk(input.rating)
        tagsBad == NotNullish(input.tags) /\ input.tags.k # "arr"
        problems ==
            (IF titleBad THEN <<TitleProblem>> ELSE <<>>)
            \o (IF yearBad THEN <<YearProblem>> ELSE <<>>)
            \o (IF ratingBad THEN <<RatingProblem>> ELSE <<>>)
            \o (IF tagsBad THEN <<TagsProblem>> ELSE <<>>)
        out ==
            [input EXCEPT
                !.year = IF NotNullish(input.year) /\ ~yearBad
                         THEN Num(ToNumber(input.year).n) ELSE @,
                !.rating = IF NotNullish(input.rating) /\ ~ratingBad
                           THEN Num(RoundTenth(RatingNumber(input.rating).n)) ELSE @,
                !.tags = IF NotNullish(input.tags) /\ ~tagsBad
                         THEN Arr(Take(input.tags.a, TagCap)) ELSE @]
    IN [ok |-> problems = <<>>, value |-> out, problems |-> problems]

-----------------------------------------------------------------------------
(* createBook, updateBook, deleteBook *)

NoBook ==
    [id |-> Absent, title |-> Absent, author |-> Absent, year |-> Absent,
     rating |-> Absent, tags |-> Absent, createdAt |-> 0, updatedAt |-> 0,
     version |-> Absent]

\* db.books.findIndex(b => b.id === id), counted from 1; 0 when there is none
FindIndex(bs, id) ==
    IF \E i \in 1..Len(bs) : bs[i].id = id
    THEN CHOOSE i \in 1..Len(bs) :
            bs[i].id = id /\ \A j \in 1..(i - 1) : bs[j].id # id
    ELSE 0

\* findBook(id) is truthy
Found(bs, id) == FindIndex(bs, id) # 0

\* What a call leaves: the response it returns or throws (code, err, and the
\* error's details), the collection, whether it went on to persist(), the
\* index of the record it wrote or removed, and that record.
Outcome(code, err, expected, problems, bs, wrote, idx, book) ==
    [code |-> code, err |-> err, expected |-> expected, problems |-> problems,
     books |-> bs, wrote |-> wrote, idx |-> idx, book |-> book]

\* createBook without `if (value.id && findBook(value.id)) throw`
createBookIdUnchecked(bs, input, now, gen) ==
    LET v == validateBook(input, FALSE)
        value == v.value
        id == IF Truthy(value.id) THEN value.id ELSE gen
        book ==
            [id |-> id, title |-> value.title,
             author |-> IF Truthy(value.author) THEN value.author ELSE UnknownAuthor,
             year |-> OrNull(value.year), rating |-> OrNull(value.rating),
             tags |-> IF Truthy(value.tags) THEN value.tags ELSE Arr(<<>>),
             createdAt |-> now, updatedAt |-> now, version |-> Num(1)]
    IN  IF ~v.ok
        THEN Outcome(400, "VALIDATION", Absent, v.problems, bs, FALSE, 0, NoBook)
        ELSE Outcome(201, "", Absent, <<>>, Append(bs, book), TRUE, Len(bs) + 1, book)

\* createBook with `version: value.version ?? 1`
createBookKeepsVersion(bs, input, now, gen) ==
    LET v == validateBook(input, FALSE)
        value == v.value
        id == IF Truthy(value.id) THEN value.id ELSE gen
        book ==
            [id |-> id, title |-> value.title,
             author |-> IF Truthy(value.author) THEN value.author ELSE UnknownAuthor,
             year |-> OrNull(value.year), rating |-> OrNull(value.rating),
             tags |-> IF Truthy(value.tags) THEN value.tags ELSE Arr(<<>>),
             createdAt |-> now, updatedAt |-> now,
             version |-> IF NotNullish(value.version) THEN value.version ELSE Num(1)]
    IN  IF ~v.ok
        THEN Outcome(400, "VALIDATION", Absent, v.problems, bs, FALSE, 0, NoBook)
        ELSE IF Truthy(value.id) /\ Found(bs, value.id)
        THEN Outcome(409, "CONFLICT", Absent, <<>>, bs, FALSE, 0, NoBook)
        ELSE Outcome(201, "", Absent, <<>>, Append(bs, book), TRUE, Len(bs) + 1, book)

\* createBook(input); now is nowISO(), gen the id drawn from randomBytes
createBook(bs, input, now, gen) ==
    LET v == validateBook(input, FALSE)
        value == v.value
        id == IF Truthy(value.id) THEN value.id ELSE gen
        book ==
            [id |-> id, title |-> value.title,
             author |-> IF Truthy(value.author) THEN value.author ELSE UnknownAuthor,
             year |-> OrNull(value.year), rating |-> OrNull(value.rating),
             tags |-> IF Truthy(value.tags) THEN value.tags ELSE Arr(<<>>),
             createdAt |-> now, updatedAt |-> now, version |-> Num(1)]
    IN  IF ~v.ok
        THEN Outcome(400, "VALIDATION", Absent, v.problems, bs, FALSE, 0, NoBook)
        ELSE IF Truthy(value.id) /\ Found(bs, value.id)
        THEN Outcome(409, "CONFLICT", Absent, <<>>, bs, FALSE, 0, NoBook)
        ELSE Outcome(201, "", Absent, <<>>, Append(bs, book), TRUE, Len(bs) + 1, book)

\* `Number(patch.version) !== b.version`
VersionDiffers(pv, bv) ==
    ~(bv.k = "num" /\ ~ToNumber(pv).nan /\ ToNumber(pv).n = bv.n)

\* Object.assign(b, value): every key of value, null ones too, overwrites b's
Assign(b, value) ==
    [b EXCEPT
        !.id = IF Has(value.id) THEN value.id ELSE @,
        !.title = IF Has(value.title) THEN value.title ELSE @,
        !.author = IF Has(value.author) THEN value.author ELSE @,
        !.year = IF Has(value.year) THEN value.year ELSE @,
        !.rating = IF Has(value.rating) THEN value.rating ELSE @,
        !.tags = IF Has(value.tags) THEN value.tags ELSE @,
        !.version = IF Has(value.version) THEN value.version ELSE @]

\* the version check made only once the patch has passed validation
VersionConflictIfValid(b, patch) ==
    /\ NotNullish(patch.version)
    /\ VersionDiffers(patch.version, b.version)
    /\ validateBook(patch, TRUE).ok

\* the version check of updateBook throws
VersionConflict(b, patch) ==
    NotNullish(patch.version) /\ VersionDiffers(patch.version, b.version)

\* the record updateBook leaves
Updated(b, value, now) ==
    LET c == Assign(b, value)
    IN [c EXCEPT !.updatedAt = now, !.version = PlusOne(c.version)]

\* updateBook with Object.assign ahead of the `if (!valid) throw`
updateBookAssignsFirst(bs, id, patch, now) ==
    LET i == FindIndex(bs, id)
        v == validateBook(patch, TRUE)
    IN  IF i = 0
        THEN Outcome(404, "NOT_FOUND", Absent, <<>>, bs, FALSE, 0, NoBook)
        ELSE IF VersionConflict(bs[i], patch)
        THEN Outcome(409, "VERSION_CONFLICT", bs[i].version, <<>>, bs, FALSE, 0, NoBook)
        ELSE IF ~v.ok
        THEN Outcome(400, "VALIDATION", Absent, v.problems,
                     [bs EXCEPT ![i] = Assign(bs[i], v.value)], FALSE, 0, NoBook)
        ELSE Outcome(200, "", Absent, <<>>,
                     [bs EXCEPT ![i] = Updated(bs[i], v.value, now)],
                     TRUE, i, Updated(bs[i], v.value, now))

\* updateBook(id, patch)
updateBook(bs, id, patch, now) ==
    LET i == FindIndex(bs, id)
        v == validateBook(patch, TRUE)
    IN  IF i = 0
        THEN Outcome(404, "NOT_FOUND", Absent, <<>>, bs, FALSE, 0, NoBook)
        ELSE IF VersionConflict(bs[i], patch)
        THEN Outcome(409, "VERSION_CONFLICT", bs[i].version, <<>>, bs, FALSE, 0, NoBook)
        ELSE IF ~v.ok
        THEN Outcome(400, "VALIDATION", Absent, v.problems, bs, FALSE, 0, NoBook)
        ELSE Outcome(200, "", Absent, <<>>,
                     [bs EXCEPT ![i] = Updated(bs[i], v.value, now)],
                     TRUE, i, Updated(bs[i], v.value, now))

\* bs.splice(i): without the count, everything from i on is removed
SpliceToEnd(bs, i) == SubSeq(bs, 1, i - 1)

\* bs.splice(i, 1)
Splice(bs, i) == SubSeq(bs, 1, i - 1) \o SubSeq(bs, i + 1, Len(bs))

\* deleteBook(id)
deleteBook(bs, id) ==
    LET i == FindIndex(bs, id)
    IN  IF i = 0
        THEN Outcome(404, "NOT_FOUND", Absent, <<>>, bs, FALSE, 0, NoBook)
        ELSE Outcome(200, "", Absent, <<>>, Splice(bs, i), TRUE, i, bs[i])

-----------------------------------------------------------------------------
(* Persistence: ensureDataFile, migrateDb, atomicWrite, persist *)

\* a timestamp key that is missing from a loaded record
NoTime == -1

NoFile == [st |-> "none", data |-> <<>>]

\* a file whose write was cut short: JSON.parse throws on it
Torn == [st |-> "torn", data |-> <<>>]

\* JSON.stringify(db, null, 2) written out in full. Every value a record of
\* the collection can hold (null, a number, a string, an array of strings)
\* is a JSON value, so the text determines each key and value.
Stringify(bs) == [st |-> "ok", data |-> bs]

\* JSON.parse(fs.readFileSync(DATA_PATH)).books
ParseFile(f) == f.data

\* the seed of ensureDataFile
Seed(now) ==
    << [id |-> Txt("b1"), title |-> Txt("Clean Architecture"),
        author |-> Txt("Robert C. Martin"), year |-> Num(2017), rating |-> Num(460),
        tags |-> Arr(<<"architecture">>),
        createdAt |-> now, updatedAt |-> now, version |-> Num(1)],
       [id |-> Txt("b2"), title |-> Txt("Designing Data-Intensive Applications"),
        author |-> Txt("Martin Kleppmann"), year |-> Num(2017), rating |-> Num(480),
        tags |-> Arr(<<"data", "systems">>),
        createdAt |-> now, updatedAt |-> now, version |-> Num(1)],
       [id |-> Txt("b3"), title |-> Txt("You Don't Know JS Yet"),
        author |-> Txt("Kyle Simpson"), year |-> Num(2020), rating |-> Num(450),
        tags |-> Arr(<<"javascript">>),
        createdAt |-> now, updatedAt |-> now, version |-> Num(1)] >>

\* migrateDb's loop body without `if (!b.updatedAt) b.updatedAt = b.createdAt`
MigrateBookNoUpdatedAt(b, now) ==
    [b EXCEPT
        !.tags = IF b.tags.k = "arr" THEN @ ELSE Arr(<<>>),
        !.createdAt = IF b.createdAt = NoTime THEN now ELSE @,
        !.version = IF b.version.k = "num" THEN @ ELSE Num(1)]

\* one record through the loop body of migrateDb
MigrateBook(b, now) ==
    LET created == IF b.createdAt = NoTime THEN now ELSE b.createdAt
    IN [b EXCEPT
            !.tags = IF b.tags.k = "arr" THEN @ ELSE Arr(<<>>),
            !.createdAt = created,
            !.updatedAt = IF b.updatedAt = NoTime THEN created ELSE @,
            !.version = IF b.version.k = "num" THEN @ ELSE Num(1)]

\* migrateDb(db): the collection it leaves
migrateDb(bs, now) == [i \in 1..Len(bs) |-> MigrateBook(bs[i], now)]

\* How a write of the collection can end: it completes; writeFileSync throws
\* part way; the process dies part way through writeFileSync; the process
\* dies between writeFileSync and renameSync.
PersistOutcomes == {"ok", "fail", "crash_write", "crash_rename"}

\* atomicWrite(db): the two files it leaves, whether it threw, whether the
\* process died in it
atomicWrite(bs, po, f, t) ==
    CASE po = "ok" ->
            [file |-> Stringify(bs), tmp |-> "none", thrown |-> FALSE, crashed |-> FALSE]
      [] po = "fail" ->
            [file |-> f, tmp |-> "torn", thrown |-> TRUE, crashed |-> FALSE]
      [] po = "crash_write" ->
            [file |-> f, tmp |-> "torn", thrown |-> FALSE, crashed |-> TRUE]
      [] po = "crash_rename" ->
            [file |-> f, tmp |-> "ok", thrown |-> FALSE, crashed |-> TRUE]

\* persist()
persist(bs, po, f, t) == atomicWrite(bs, po, f, t)

\* fs.writeFileSync(DATA_PATH, JSON.stringify(seed, null, 2)) in
\* ensureDataFile: the data file it leaves when it completes and when the
\* process dies in it
SeedWrite(bs, done) == IF done THEN Stringify(bs) ELSE Torn

-----------------------------------------------------------------------------
(* The text of strings: UTF-16 code units, for toLowerCase, includes, join,   *)
(* Number and the comparison of strings                                      *)

\* the code units of every text the model gives a name to
Spelling ==
    ("" :> <<>>) @@
    ("Clean Architecture" :> <<67, 108, 101, 97, 110, 32, 65, 114, 99, 104, 105, 116, 101, 99, 116, 117, 114, 101>>) @@
    ("Designing Data-Intensive Applications" :> <<68, 101, 115, 105, 103, 110, 105, 110, 103, 32, 68, 97, 116, 97, 45, 73, 110, 116, 101, 110, 115, 105, 118, 101, 32, 65, 112, 112, 108, 105, 99, 97, 116, 105, 111, 110, 115>>) @@
    ("Dune" :> <<68, 117, 110, 101>>) @@
    ("Kyle Simpson" :> <<75, 121, 108, 101, 32, 83, 105, 109, 112, 115, 111, 110>>) @@
    ("Martin Kleppmann" :> <<77, 97, 114, 116, 105, 110, 32, 75, 108, 101, 112, 112, 109, 97, 110, 110>>) @@
    ("Nobody" :> <<78, 111, 98, 111, 100, 121>>) @@ ("Old" :> <<79, 108, 100>>) @@
    ("Robert C. Martin" :> <<82, 111, 98, 101, 114, 116, 32, 67, 46, 32, 77, 97, 114, 116, 105, 110>>) @@
    ("Someone" :> <<83, 111, 109, 101, 111, 110, 101>>) @@
    ("Unknown" :> <<85, 110, 107, 110, 111, 119, 110>>) @@
    ("You Don't Know JS Yet" :> <<89, 111, 117, 32, 68, 111, 110, 39, 116, 32, 75, 110, 111, 119, 32, 74, 83, 32, 89, 101, 116>>) @@
    ("b00000a" :> <<98, 48, 48, 48, 48, 48, 97>>) @@
    ("b00000b" :> <<98, 48, 48, 48, 48, 48, 98>>) @@ ("b1" :> <<98, 49>>) @@
    ("b2" :> <<98, 50>>) @@ ("b3" :> <<98, 51>>) @@ ("n1" :> <<110, 49>>) @@
    ("architecture" :> <<97, 114, 99, 104, 105, 116, 101, 99, 116, 117, 114, 101>>) @@
    ("data" :> <<100, 97, 116, 97>>) @@
    ("systems" :> <<115, 121, 115, 116, 101, 109, 115>>) @@
    ("javascript" :> <<106, 97, 118, 97, 115, 99, 114, 105, 112, 116>>) @@
    ("old" :> <<111, 108, 100>>) @@ ("Martin" :> <<77, 97, 114, 116, 105, 110>>) @@
    ("DATA" :> <<68, 65, 84, 65>>) @@
    ("data,systems" :> <<100, 97, 116, 97, 44, 115, 121, 115, 116, 101, 109, 115>>) @@
    ("zz" :> <<122, 122>>) @@ ("id" :> <<105, 100>>) @@
    ("title" :> <<116, 105, 116, 108, 101>>) @@
    ("author" :> <<97, 117, 116, 104, 111, 114>>) @@
    ("year" :> <<121, 101, 97, 114>>) @@
    ("rating" :> <<114, 97, 116, 105, 110, 103>>) @@
    ("createdAt" :> <<99, 114, 101, 97, 116, 101, 100, 65, 116>>) @@
    ("updatedAt" :> <<117, 112, 100, 97, 116, 101, 100, 65, 116>>) @@
    ("version" :> <<118, 101, 114, 115, 105, 111, 110>>) @@
    ("asc" :> <<97, 115, 99>>) @@ ("desc" :> <<100, 101, 115, 99>>) @@
    ("DESC" :> <<68, 69, 83, 67>>) @@ ("up" :> <<117, 112>>) @@
    ("abc" :> <<97, 98, 99>>) @@ ("1.5" :> <<49, 46, 53>>) @@ ("-1" :> <<45, 49>>) @@
    ("2020" :> <<50, 48, 50, 48>>) @@ ("null" :> <<110, 117, 108, 108>>) @@
    ("undefined" :> <<117, 110, 100, 101, 102, 105, 110, 101, 100>>)

\* the code units of a string value: a numeral's digits are '0' + d
CodeUnits(v) ==
    IF v.s # <<>> THEN [i \in 1..Len(v.s) |-> 48 + v.s[i]] ELSE Spelling[v.t]

\* String.prototype.toLowerCase on the letters A-Z
ToLowerCase(u) ==
    [i \in 1..Len(u) |-> IF u[i] >= 65 /\ u[i] <= 90 THEN u[i] + 32 ELSE u[i]]

\* u.includes(q)
Includes(u, q) ==
    \E i \in 0..(Len(u) - Len(q)) : SubSeq(u, i + 1, i + Len(q)) = q

\* tags.join(','): the elements' code units with a comma between them
RECURSIVE Join(_)
Join(tags) ==
    IF tags = <<>> THEN <<>>
    ELSE IF Len(tags) = 1 THEN Spelling[tags[1]]
    ELSE Join(SubSeq(tags, 1, Len(tags) - 1)) \o <<44>> \o Spelling[tags[Len(tags)]]

\* u < w as JavaScript compares two strings: by code units, a proper prefix
\* first
RECURSIVE LexLess(_, _)
LexLess(u, w) ==
    IF w = <<>> THEN FALSE
    ELSE IF u = <<>> THEN TRUE
    ELSE IF u[1] # w[1] THEN u[1] < w[1]
    ELSE LexLess(Tail(u), Tail(w))

IsDigit(c) == c >= 48 /\ c <= 57

\* the value of a run of digit code units
RECURSIVE DigitsValue(_)
DigitsValue(u) ==
    IF u = <<>> THEN 0
    ELSE 10 * DigitsValue(SubSeq(u, 1, Len(u) - 1)) + (u[Len(u)] - 48)

\* Number(text) for a query parameter, in tenths: [nan, x]. An optional '-',
\* digits, and an optional '.' with digits after it; any other text is NaN.
\* (The model's parameters have at most one digit after the point.)
ParamNumber(u) ==
    LET neg == u # <<>> /\ u[1] = 45
        body == IF neg THEN Tail(u) ELSE u
        dots == {i \in 1..Len(body) : body[i] = 46}
        dot == IF dots = {} THEN Len(body) + 1 ELSE CHOOSE i \in dots : \A j \in dots : i <= j
        whole == SubSeq(body, 1, dot - 1)
        frac == SubSeq(body, dot + 1, Len(body))
        wellFormed ==
            /\ \A i \in 1..Len(whole) : IsDigit(whole[i])
            /\ \A i \in 1..Len(frac) : IsDigit(frac[i])
            /\ Len(whole) + Len(frac) >= 1
            /\ Len(frac) <= 1
        tenths == 10 * DigitsValue(whole) + DigitsValue(frac)
    IN  IF u = <<>> THEN [nan |-> FALSE, x |-> 0]
        ELSE IF ~wellFormed THEN [nan |-> TRUE, x |-> 0]
        ELSE [nan |-> FALSE, x |-> IF neg THEN 0 - tenths ELSE tenths]

-----------------------------------------------------------------------------
(* applyQuery *)

\* `... || 20`
DefaultLimit == 20

\* `Math.max(..., 1)`
MinLimit == 1

\* `Math.min(..., 100)`
MaxLimit == 100

\* the keys a query can sort by
Sortable == {"id", "title", "author", "year", "rating", "createdAt", "updatedAt"}

\* url.searchParams: what get() returns for each of the five keys, a string,
\* or Absent where get() returns null
Params(q, sort, dir, limit, offset) ==
    [q |-> q, sort |-> sort, dir |-> dir, limit |-> limit, offset |-> offset]

NoParams == Params(Absent, Absent, Absent, Absent, Absent)

\* `v || d` for a string: the code units of v, or d when v is null or empty
TextOr(v, d) == IF Truthy(v) THEN CodeUnits(v) ELSE d

\* a number of the query, in tenths
Tenths(x) == [nan |-> FALSE, x |-> x]

\* Math.max(n, lo) and Math.min(n, hi): NaN stays NaN
MathMax(n, lo) == IF n.nan \/ n.x >= lo THEN n ELSE Tenths(lo)

MathMin(n, hi) == IF n.nan \/ n.x <= hi THEN n ELSE Tenths(hi)

\* Number(url.searchParams.get(k) || d)
NumberOr(v, d) == IF Truthy(v) THEN ParamNumber(CodeUnits(v)) ELSE Tenths(10 * d)

\* `(b.title || '').toLowerCase().includes(q)` for one key: "in", "out", or
\* "throw" when the value is truthy and has no toLowerCase
KeyMatch(v, q) ==
    IF Truthy(v) /\ ~IsString(v) THEN "throw"
    ELSE IF Includes(ToLowerCase(TextOr(v, <<>>)), q) THEN "in"
    ELSE "out"

\* the callback of `out.filter`: the four tests, left to right, stopping at
\* the first that is true
Match(b, q) ==
    IF KeyMatch(b.title, q) # "out" THEN KeyMatch(b.title, q)
    ELSE IF KeyMatch(b.author, q) # "out" THEN KeyMatch(b.author, q)
    ELSE IF KeyMatch(b.id, q) # "out" THEN KeyMatch(b.id, q)
    ELSE IF Includes(ToLowerCase(IF b.tags.k = "arr" THEN Join(b.tags.a) ELSE <<>>), q)
    THEN "in"
    ELSE "out"

\* the record passes the filter
IsMatch(b, q) == Match(b, q) = "in"

\* `a[s] ?? ''`; a timestamp is the number of its time
SortKey(b, s) ==
    LET v == CASE s = "id" -> b.id
               [] s = "title" -> b.title
               [] s = "author" -> b.author
               [] s = "year" -> b.year
               [] s = "rating" -> b.rating
               [] s = "createdAt" -> Num(b.createdAt)
               [] s = "updatedAt" -> Num(b.updatedAt)
    IN IF NotNullish(v) THEN v ELSE Txt("")

\* `av > bv`: two strings by code units, anything else as numbers
Greater(av, bv) ==
    IF IsString(av) /\ IsString(bv)
    THEN LexLess(CodeUnits(bv), CodeUnits(av))
    ELSE ~ToNumber(av).nan /\ ~ToNumber(bv).nan /\ ToNumber(av).n > ToNumber(bv).n

\* the comparator of `sort`
Compare(a, b, s, dir) ==
    IF Greater(SortKey(a, s), SortKey(b, s)) THEN dir
    ELSE IF Greater(SortKey(b, s), SortKey(a, s)) THEN 0 - dir
    ELSE 0

\* Array.prototype.sort with that comparator: stable, so each record goes
\* behind the records before it that do not compare greater
RECURSIVE SortBy(_, _, _)
SortBy(list, s, dir) ==
    IF list = <<>> THEN <<>>
    ELSE LET x == list[Len(list)]
             done == SortBy(SubSeq(list, 1, Len(list) - 1), s, dir)
             after == {i \in 1..Len(done) : Compare(done[i], x, s, dir) > 0}
             at == IF after = {} THEN Len(done) + 1
                   ELSE CHOOSE i \in after : \A j \in after : i <= j
         IN SubSeq(done, 1, at - 1) \o <<x>> \o SubSeq(done, at, Len(done))

\* The comparator orders the keys of `list` consistently, as the language
\* requires of a comparator: "greater" is transitive, and so is "neither is
\* greater". Strings against numbers are not: 7 is neither greater nor less
\* than any text, while the texts differ among themselves.
Consistent(list, s) ==
    LET G(i, j) == Greater(SortKey(list[i], s), SortKey(list[j], s))
        E(i, j) == ~G(i, j) /\ ~G(j, i)
        I == 1..Len(list)
    IN \A i, j, k \in I :
        /\ (G(i, j) /\ G(j, k)) => G(i, k)
        /\ (E(i, j) /\ E(j, k)) => E(i, k)

\* every order the records of `list` can be put in
Arrangements(list) ==
    LET I == 1..Len(list)
    IN { [i \in I |-> list[f[i]]] :
            f \in {g \in [I -> I] : \A i, j \in I : g[i] = g[j] => i = j} }

\* What `out.slice().sort(comparator)` can return: the stable sort when the
\* comparator is consistent; with an inconsistent comparator the order is
\* left to the implementation, so any arrangement.
SortOutcomes(list, s, dir) ==
    IF Consistent(list, s) THEN {SortBy(list, s, dir)} ELSE Arrangements(list)

\* applyQuery sorting `out` itself: without a filter `out` is the collection
ListAfterSortInPlace(list, q, sorted) == IF q = <<>> THEN sorted ELSE list

\* The array that was passed in, after the call: filter makes a new array and
\* the sort works on `out.slice()`, so it is as it was.
ListAfter(list, q, sorted) == list

\* out.slice(offset, offset + limit): slice takes the integer part of each
\* bound, and 0 for NaN
Slice(out, offset, limit) ==
    LET start == IF offset.nan THEN 0 ELSE offset.x \div 10
        end == IF offset.nan \/ limit.nan THEN 0 ELSE (offset.x + limit.x) \div 10
    IN SubSeq(out, start + 1, IF end < Len(out) THEN end ELSE Len(out))

\* `total` taken after `out = out.slice(offset, offset + limit)`
TotalOfPage(sorted, page) == Len(page)

\* `const total = out.length`, taken before the slice
Total(sorted, page) == Len(sorted)

NoMeta ==
    [total |-> 0, limit |-> Tenths(0), offset |-> Tenths(0), sort |-> "",
     dir |-> "", q |-> <<>>]

\* applyQuery(list, url): the outcomes it can have, each the page and meta it
\* returns, or that it threw, with the array it was called on as it leaves it
applyQuery(list, p) ==
    LET q == ToLowerCase(TextOr(p.q, <<>>))
        s == IF Truthy(p.sort) /\ p.sort.t \in Sortable THEN p.sort.t ELSE "title"
        dir == IF ToLowerCase(TextOr(p.dir, Spelling["asc"])) = Spelling["desc"]
               THEN 0 - 1 ELSE 1
        limit == MathMin(MathMax(NumberOr(p.limit, DefaultLimit), 10 * MinLimit),
                         10 * MaxLimit)
        offset == MathMax(NumberOr(p.offset, 0), 0)
        thrown == q # <<>> /\ \E i \in 1..Len(list) : Match(list[i], q) = "throw"
        filtered == IF q = <<>> THEN list ELSE SelectSeq(list, LAMBDA b : IsMatch(b, q))
    IN  IF thrown THEN {[thrown |-> TRUE, list |-> <<>>, meta |-> NoMeta, left |-> list]}
        ELSE { [thrown |-> FALSE,
                list |-> Slice(sorted, offset, limit),
                meta |-> [total |-> Total(sorted, Slice(sorted, offset, limit)),
                          limit |-> limit, offset |-> offset,
                          sort |-> s, dir |-> IF dir = 1 THEN "asc" ELSE "desc",
                          q |-> q],
                left |-> ListAfter(list, q, sorted)] :
               sorted \in SortOutcomes(filtered, s, dir) }

-----------------------------------------------------------------------------
(* GET /api/stats *)

\* `.slice(0,5)`
TopCap == 5

\* the decimal digits of a whole number >= 0, as code units
RECURSIVE NumeralUnits(_)
NumeralUnits(n) ==
    IF n < 10 THEN <<48 + n>> ELSE Append(NumeralUnits(n \div 10), 48 + (n % 10))

\* the property name `m[v]` uses: String(v)
KeyUnits(v) ==
    CASE v.k = "str" -> CodeUnits(v)
      [] v.k = "num" -> NumeralUnits(v.n)
      [] v.k = "null" -> Spelling["null"]
      [] OTHER -> Spelling["undefined"]

\* db.books.map(b => b.author), as property names
AuthorKeys(bs) == [i \in 1..Len(bs) |-> KeyUnits(bs[i].author)]

\* db.books.flatMap(b => b.tags || []), as property names
RECURSIVE TagKeys(_)
TagKeys(bs) ==
    IF bs = <<>> THEN <<>>
    ELSE LET b == bs[Len(bs)]
             own == IF b.tags.k = "arr"
                    THEN [i \in 1..Len(b.tags.a) |-> Spelling[b.tags.a[i]]]
                    ELSE <<>>
         IN TagKeys(SubSeq(bs, 1, Len(bs) - 1)) \o own

\* the property name is an integer index: digits with no leading zero
IntegerKey(u) ==
    /\ u # <<>>
    /\ \A i \in 1..Len(u) : IsDigit(u[i])
    /\ (u[1] # 48 \/ Len(u) = 1)

\* the different keys, each where it comes first
RECURSIVE FirstSeen(_)
FirstSeen(keys) ==
    IF keys = <<>> THEN <<>>
    ELSE LET r == FirstSeen(SubSeq(keys, 1, Len(keys) - 1))
             k == keys[Len(keys)]
         IN IF \E i \in 1..Len(r) : r[i] = k THEN r ELSE Append(r, k)

\* integer keys in ascending order
RECURSIVE Ascending(_)
Ascending(ints) ==
    IF ints = <<>> THEN <<>>
    ELSE LET i == CHOOSE i \in 1..Len(ints) :
                    \A j \in 1..Len(ints) : DigitsValue(ints[i]) <= DigitsValue(ints[j])
         IN <<ints[i]>> \o Ascending(SubSeq(ints, 1, i - 1) \o SubSeq(ints, i + 1, Len(ints)))

\* The entries of the object `reduce` builds. Object.entries takes the
\* properties of an object with the integer keys first, in ascending order,
\* then the other keys in the order they were created.
Entries(keys) ==
    LET d == FirstSeen(keys)
        e == Ascending(SelectSeq(d, IntegerKey))
                \o SelectSeq(d, LAMBDA u : ~IntegerKey(u))
    IN [i \in 1..Len(e) |->
            [key |-> e[i], count |-> Cardinality({j \in 1..Len(keys) : keys[j] = e[i]})]]

\* .sort((a,b) => b[1]-a[1]): stable, by count, largest first
RECURSIVE ByCount(_)
ByCount(es) ==
    IF es = <<>> THEN <<>>
    ELSE LET x == es[Len(es)]
             done == ByCount(SubSeq(es, 1, Len(es) - 1))
             after == {i \in 1..Len(done) : done[i].count < x.count}
             at == IF after = {} THEN Len(done) + 1
                   ELSE CHOOSE i \in after : \A j \in after : i <= j
         IN SubSeq(done, 1, at - 1) \o <<x>> \o SubSeq(done, at, Len(done))

\* Object.entries(...).sort(...).slice(0,5)
Top(keys) == Take(ByCount(Entries(keys)), TopCap)

RECURSIVE SumRatings(_)
SumRatings(bs) ==
    IF bs = <<>> THEN 0
    ELSE SumRatings(Tail(bs)) + (IF Truthy(bs[1].rating) THEN bs[1].rating.n ELSE 0)

\* Number((sum / rated.length).toFixed(2)), in hundredths, or null
AvgRating(bs) ==
    LET rated == SelectSeq(bs, LAMBDA b : NotNullish(b.rating))
    IN IF rated = <<>> THEN [null |-> TRUE, h |-> 0]
       ELSE [null |-> FALSE,
             h |-> (2 * SumRatings(rated) + Len(rated)) \div (2 * Len(rated))]

NoStats ==
    [count |-> 0, avgRating |-> [null |-> TRUE, h |-> 0], topAuthors |-> <<>>,
     topTags |-> <<>>]

\* the data of GET /api/stats
Stats(bs) ==
    [count |-> Len(bs), avgRating |-> AvgRating(bs),
     topAuthors |-> Top(AuthorKeys(bs)), topTags |-> Top(TagKeys(bs))]

-----------------------------------------------------------------------------
(* Requests and responses *)

\* sendJSON's payload, with what the handler was called on; n numbers the
\* responses (the requests taken up when it was sent)
NoResp ==
    [op |-> "none", n |-> 0, id |-> Absent, input |-> EmptyInput,
     code |-> 0, err |-> "", expected |-> Absent, problems |-> <<>>,
     idx |-> 0, book |-> NoBook, mode |-> "", items |-> <<>>, added |-> <<>>,
     query |-> NoParams, list |-> <<>>, meta |-> NoMeta, seen |-> <<>>,
     stats |-> NoStats]

\* the response to a call that ended as `res`; a write that threw is caught at
\* the end of the request handler and answered 500 INTERNAL
Response(op, n, id, input, res, thrown) ==
    IF thrown
    THEN [NoResp EXCEPT !.op = op, !.n = n, !.id = id, !.input = input,
                        !.code = 500, !.err = "INTERNAL"]
    ELSE [NoResp EXCEPT !.op = op, !.n = n, !.id = id, !.input = input,
                        !.code = res.code, !.err = res.err,
                        !.expected = res.expected, !.problems = res.problems,
                        !.idx = res.idx, !.book = res.book]

\* a PUT whose body is being read (st = "reading"), or was answered
\* (st = "done"); raced marks the two requests of a race (a history value)
IdleReq ==
    [st |-> "idle", id |-> Absent, patch |-> EmptyInput, raced |-> FALSE,
     code |-> 0, err |-> "", expected |-> Absent]

NoRequests == [c \in Clients |-> IdleReq]

\* the handler of POST /api/books/bulk, as the holder of the call stack
BulkHandler == "bulk"

NoBulk ==
    [owner |-> NoReq, mode |-> "", items |-> <<>>, idx |-> 0, added |-> <<>>,
     before |-> <<>>]

\* a request outside a race ends every race that is under way
Unrace(rq) ==
    [c \in Clients |->
        IF rq[c].st = "reading" THEN [rq[c] EXCEPT !.raced = FALSE] ELSE rq[c]]

-----------------------------------------------------------------------------
(* Inputs *)

\* 'b' + crypto.randomBytes(3).toString('hex')
GenIds == {Txt("b00000a"), Txt("b00000b")}

Dune == Input(Absent, Txt("Dune"), Absent, Absent, Absent, Absent, Absent)

NoTitle == Input(Absent, Absent, Txt("Nobody"), Absent, Absent, Absent, Absent)

CreateInputs ==
    { Dune,
      [NoTitle EXCEPT !.id = Txt("b1")],
      [Dune EXCEPT !.id = Txt("b1")],
      [Dune EXCEPT !.id = Txt("n1"), !.rating = Num(455), !.version = Num(7)] }

\* the ids PUT requests address
UpdateIds == {Txt("b1")}

\* the ids GET and DELETE requests address
TargetIds == {Txt("b1"), Txt("b2")}

RatingPatch(ver) == [EmptyInput EXCEPT !.rating = Num(455), !.version = ver]

PatchVersions == {Absent, Null, Num(1), Num(2), Digits(<<1>>)}

Patches ==
    { RatingPatch(ver) : ver \in PatchVersions }
    \cup { [EmptyInput EXCEPT !.id = Txt("b2")],
           [EmptyInput EXCEPT !.rating = Num(900), !.year = Num(1999), !.version = Num(1)],
           [EmptyInput EXCEPT !.tags = Null],
           [EmptyInput EXCEPT !.title = Txt("")] }

BulkModes == {"append", "replace"}

BulkItems ==
    { <<>>, <<[Dune EXCEPT !.id = Txt("n2")], NoTitle, [Dune EXCEPT !.id = Txt("n1")]>> }

\* the query strings of the model: each parameter missing, well formed, out of
\* range or not a number
QueryParams ==
    { Params(q, sort, dir, limit, offset) :
        q \in {Absent, Txt("Martin"), Txt("DATA"), Txt("data,systems"), Txt("zz")},
        sort \in {Absent, Txt("rating"), Txt("author"), Txt("version")},
        dir \in {Absent, Txt("DESC"), Txt("up")},
        limit \in {Absent, Digits(<<1>>), Digits(<<2>>), Txt("abc"), Txt("1.5")},
        offset \in {Absent, Digits(<<1>>), Digits(<<2>>), Txt("-1")} }

\* collections a query can find: the seed; the seed after
\* PUT /api/books/b1 {"tags":null} and POST /api/books
\* {"title":"Dune","tags":["2020"]}; the seed after PUT /api/books/b2 {"author":7,"rating":4.6}
QueryCollections ==
    { Seed(0),
      createBook([Seed(0) EXCEPT ![1].tags = Null],
                 [Dune EXCEPT !.tags = Arr(<<"2020">>)], 0, Txt("b00000a")).books,
      updateBook(Seed(0), Txt("b2"),
                 [EmptyInput EXCEPT !.author = Num(7), !.rating = Num(460)], 0).books }

\* A record of a data.json that was there before the first start: a key that
\* is missing is Absent (NoTime for a timestamp).
OldBook(id, tags, createdAt, updatedAt, version) ==
    [id |-> Txt(id), title |-> Txt("Old"), author |-> Txt("Someone"),
     year |-> Null, rating |-> Null, tags |-> tags,
     createdAt |-> createdAt, updatedAt |-> updatedAt, version |-> version]

\* the data files a first start can find: records with all four of tags,
\* createdAt, updatedAt and version, and records that miss some of them
OldFiles ==
    { Stringify(<< OldBook("b1", Arr(<<"old">>), 0, 0, Num(3)),
                   OldBook("b2", Absent, NoTime, NoTime, Absent) >>),
      Stringify(<< OldBook("b1", Arr(<<"old">>), NoTime, 0, Num(3)) >>),
      Stringify(<< OldBook("b1", Null, 0, NoTime, Digits(<<2>>)) >>) }

-----------------------------------------------------------------------------
(* Rate limiting *)

\* 5 minutes, in the milliseconds of Date.now()
HORIZON == 5 * 60 * 1000

\* requests per IP per horizon
LIMIT == 100

\* req.socket.remoteAddress of the callers
Ips == {"a", "b"}

\* const ipHits = new Map(); ipHits.get(ip) || []
NoHits == [ip \in Ips |-> <<>>]

\* a limiter that forgets a hit as soon as it is 5 minutes old
RECURSIVE ExpireAtHorizon(_, _)
ExpireAtHorizon(arr, now) ==
    IF arr # <<>> /\ now - Head(arr) >= HORIZON THEN ExpireAtHorizon(Tail(arr), now)
    ELSE arr

\* while (arr.length && now - arr[0] > HORIZON) arr.shift();
RECURSIVE Expire(_, _)
Expire(arr, now) ==
    IF arr # <<>> /\ now - Head(arr) > HORIZON THEN Expire(Tail(arr), now)
    ELSE arr

\* rateLimited(ip) with that limiter
rateLimitedAtHorizon(arr, now) ==
    LET kept == Append(ExpireAtHorizon(arr, now), now)
    IN  [arr |-> kept, limited |-> Len(kept) > LIMIT]

\* rateLimited(ip): the array it leaves in the Map, and what it returns
rateLimited(arr, now) ==
    LET kept == Append(Expire(arr, now), now)
    IN  [arr |-> kept, limited |-> Len(kept) > LIMIT]

\* nothing asked yet
NoLog == [ip \in Ips |-> [made |-> EmptyBag, served |-> EmptyBag, options |-> EmptyBag]]

\* one more entry at time t
Logged(bag, t) == bag (+) SetToBag({t})

-----------------------------------------------------------------------------
(* The form of public/app.js *)

\* the decimal digits of a whole number
RECURSIVE DigitsOf(_)
DigitsOf(n) == IF n < 10 THEN <<n>> ELSE Append(DigitsOf(n \div 10), n % 10)

\* input.value = v: the text the field then holds
FieldText(v) ==
    CASE v.k = "num" -> Digits(DigitsOf(v.n))
      [] v.k = "str" -> v
      [] v.k = "null" -> Txt("")
      [] OTHER -> Txt("undefined")

\* Number(els.version.value || 0), as JSON.stringify sends it (NaN as null)
SentVersion(field) ==
    IF ~Truthy(field) THEN Num(0)
    ELSE IF ToNumber(field).nan THEN Null
    ELSE Num(ToNumber(field).n)

\* A tab: els.id.value, els.title.value and els.version.value, and the
\* responses on their way to it. Two history values: `by`, the handler that
\* wrote the version field last, and `stale`, the ids another tab has updated
\* since the server read that version.
\* (The other fields of the form travel like the title.)
EmptyForm ==
    [id |-> Txt(""), title |-> Txt(""), version |-> Txt(""),
     by |-> "none", stale |-> {}, wait |-> <<>>]

\* the fields after the Edit handler has filled them from `data`
Filled(f, data, stale) ==
    [f EXCEPT !.id = FieldText(data.id),
              !.title = IF Truthy(data.title) THEN FieldText(data.title) ELSE Txt(""),
              !.version = FieldText(IF Truthy(data.version) THEN data.version ELSE Num(1)),
              !.by = "edit", !.stale = stale]

\* the fields after the Update handler has read its response
Renewed(f, data, stale) ==
    [f EXCEPT !.version = FieldText(data.version), !.by = "update", !.stale = stale]

\* a response of the server on its way to a tab
Reply(op, ok, data) == [op |-> op, ok |-> ok, book |-> data, stale |-> {}]

\* the sequence without its k-th element
Without(seq, k) == SubSeq(seq, 1, k - 1) \o SubSeq(seq, k + 1, Len(seq))

NoForm == [c \in Clients |-> EmptyForm]

-----------------------------------------------------------------------------
(* The list view of public/app.js *)

\* const state = { q: '', sort: 'title', dir: 'asc', limit, offset: 0, total: 0 }
\* with the limit of a page size; `rows` are the ids in els.tbody, `timer`
\* the text searchTimer will search for, `wait` the responses on their way.
NoTimer == Null

FreshState(limit) ==
    [q |-> Txt(""), sort |-> "title", dir |-> "asc", limit |-> limit, offset |-> 0,
     total |-> 0, rows |-> <<>>, timer |-> NoTimer, wait |-> <<>>]

\* a tab whose list view is not watched
NoState == FreshState(0)

\* new URLSearchParams({ q, sort, dir, limit, offset }) of refresh()
RefreshParams(st) ==
    Params(st.q, Txt(st.sort), Txt(st.dir), Digits(DigitsOf(st.limit)),
           Digits(DigitsOf(st.offset)))

\* the response refresh() awaits: { data, meta } or a failure
Listed(r) ==
    [op |-> "refresh", ok |-> ~r.thrown, total |-> r.meta.total,
     rows |-> [i \in 1..Len(r.list) |-> r.list[i].id]]

\* the response the Delete button awaits
Deleted(done) == [op |-> "delete", ok |-> done, total |-> 0, rows |-> <<>>]

-----------------------------------------------------------------------------
(* The state machine *)

Init ==
    /\ up = FALSE
    /\ books = <<>>
    /\ file = NoFile
    /\ tmp = "none"
    /\ clock = 0
    /\ reqs = NoRequests
    /\ running = NoReq
    /\ bulk = NoBulk
    /\ last = NoResp
    /\ served = 0
    /\ asked = NoParams
    /\ ipHits = NoHits
    /\ log = NoLog
    /\ form = NoForm
    /\ state = NoState

\* the process dies: memory and open connections are lost, the files stay
Dies ==
    /\ up' = FALSE
    /\ books' = <<>>
    /\ reqs' = NoRequests
    /\ running' = NoReq
    /\ bulk' = NoBulk
    /\ last' = NoResp
    /\ ipHits' = NoHits

StartOutcomes == PersistOutcomes \cup {"crash_seed"}

\* node server.js: ensureDataFile(), migrateDb(db), persist(), listen
Start ==
    /\ ~up
    /\ file.st # "torn"
    /\ \E so \in StartOutcomes :
        LET fresh == file.st = "none"
            loaded == IF fresh THEN Seed(clock) ELSE ParseFile(file)
            db == migrateDb(loaded, clock)
            p == persist(db, so, IF fresh THEN SeedWrite(loaded, TRUE) ELSE file, tmp)
        IN  IF so = "crash_seed"
            THEN /\ fresh
                 /\ file' = SeedWrite(loaded, FALSE)
                 /\ UNCHANGED <<up, books, tmp>>
            ELSE /\ file' = p.file
                 /\ tmp' = p.tmp
                 /\ up' = (~p.crashed /\ ~p.thrown)
                 /\ books' = IF ~p.crashed /\ ~p.thrown THEN db ELSE <<>>
    /\ UNCHANGED <<clock, reqs, running, bulk, last, served, asked, ipHits, log, form, state>>

\* time passes
Tick ==
    /\ clock < MaxClock
    /\ clock' = clock + 1
    /\ UNCHANGED <<up, books, file, tmp, reqs, running, bulk, last, served, asked, ipHits, log, form, state>>

Crash ==
    /\ up
    /\ Dies
    /\ UNCHANGED <<file, tmp, clock, served, asked, log, form, state>>

\* a handler that puts the collection back when persist() throws
AfterFailedWriteRolledBack(before, after) == before

\* The collection after a persist() that threw: createBook, updateBook and
\* deleteBook change db.books first and catch nothing, so it is the changed one.
AfterFailedWrite(before, after) == after

\* the call stack is empty, so the event loop can start or resume a handler
CanRun == up /\ running = NoReq /\ served < MaxReq

\* A handler from its call into the store to its response: `res` is what the
\* call computed, `po` how its persist() ended, `rq` the requests after it,
\* `n` the number of its response.
\* (The caller counts the request in `served`.)
Handle(op, n, id, input, res, po, rq) ==
    LET p == persist(res.books, po, file, tmp)
    IN  /\ UNCHANGED <<clock, asked, log, form, state>>
        /\ IF ~res.wrote
           THEN /\ po = "ok"
                /\ books' = res.books
                /\ last' = Response(op, n, id, input, res, FALSE)
                /\ reqs' = rq
                /\ UNCHANGED <<up, file, tmp, running, bulk, ipHits>>
           ELSE /\ file' = p.file
                /\ tmp' = p.tmp
                /\ IF p.crashed
                   THEN Dies
                   ELSE /\ books' = IF p.thrown THEN AfterFailedWrite(books, res.books)
                                    ELSE res.books
                        /\ last' = Response(op, n, id, input, res, p.thrown)
                        /\ reqs' = rq
                        /\ UNCHANGED <<up, running, bulk, ipHits>>

\* POST /api/books
CreateReq ==
    /\ CanRun
    /\ \E input \in CreateInputs, gen \in GenIds, po \in PersistOutcomes :
        Handle("create", served + 1, Absent, input, createBook(books, input, clock, gen), po, Unrace(reqs))
    /\ served' = served + 1

\* PUT /api/books/:id
UpdateReq ==
    /\ CanRun
    /\ \E id \in UpdateIds, patch \in Patches, po \in PersistOutcomes :
        Handle("update", served + 1, id, patch, updateBook(books, id, patch, clock), po, Unrace(reqs))
    /\ served' = served + 1

\* DELETE /api/books/:id
DeleteReq ==
    /\ CanRun
    /\ \E id \in TargetIds, po \in PersistOutcomes :
        Handle("delete", served + 1, id, EmptyInput, deleteBook(books, id), po, Unrace(reqs))
    /\ served' = served + 1

\* GET /api/books/:id
GetReq ==
    /\ CanRun
    /\ \E id \in TargetIds :
        LET i == FindIndex(books, id)
        IN  /\ last' = [NoResp EXCEPT !.op = "get", !.n = served + 1, !.id = id,
                            !.code = IF i = 0 THEN 404 ELSE 200,
                            !.err = IF i = 0 THEN "NOT_FOUND" ELSE "",
                            !.idx = i,
                            !.book = IF i = 0 THEN NoBook ELSE books[i]]
            /\ served' = served + 1
            /\ UNCHANGED <<up, books, file, tmp, clock, reqs, running, bulk, asked, ipHits, log, form, state>>

-----------------------------------------------------------------------------
(* POST /api/books/bulk *)

\* one element of `added`: the created book, or { error, input }
Added(res, thrown, input) ==
    IF thrown THEN [ok |-> FALSE, err |-> "UNKNOWN", book |-> NoBook, input |-> input]
    ELSE IF res.code = 201
    THEN [ok |-> TRUE, err |-> "", book |-> res.book, input |-> EmptyInput]
    ELSE [ok |-> FALSE, err |-> res.err, book |-> NoBook, input |-> input]

\* the loop body with an await in it: the handler gives up the call stack
AfterItemYields(h) == NoReq

\* Who holds the call stack after an item of the loop: the loop body has no
\* await, so the handler goes on to the next item.
AfterItem(h) == h

\* the loop with the try around it rather than in it: a rejected item ends it
NextItemUnlessRejected(idx, n, rejected) == IF rejected THEN n + 1 ELSE idx + 1

\* The item the loop takes after item idx of n: the catch is inside the loop
\* body, so the next one, whether or not createBook threw.
NextItem(idx, n, rejected) == idx + 1

\* the import without `if (mode === 'replace') db.books = []`
StartingBooksKept(mode, bs) == bs

\* the collection the loop starts on: `if (mode === 'replace') db.books = []`
StartingBooks(mode, bs) == IF mode = "replace" THEN <<>> ELSE bs

\* the body has been read; `before` keeps the collection the import found (a
\* history value)
BulkBegin ==
    /\ CanRun
    /\ \E mode \in BulkModes, items \in BulkItems :
        /\ bulk' = [owner |-> BulkHandler, mode |-> mode, items |-> items, idx |-> 1,
                     added |-> <<>>, before |-> books]
        /\ books' = StartingBooks(mode, books)
        /\ reqs' = Unrace(reqs)
    /\ running' = BulkHandler
    /\ served' = served + 1
    /\ UNCHANGED <<up, file, tmp, clock, last, asked, ipHits, log, form, state>>

\* one turn of `for (const raw of items)`: createBook(raw), its throw caught
BulkItem ==
    /\ up
    /\ bulk.owner # NoReq
    /\ running \in {NoReq, bulk.owner}
    /\ bulk.idx <= Len(bulk.items)
    /\ \E gen \in GenIds, po \in PersistOutcomes :
        LET raw == bulk.items[bulk.idx]
            res == createBook(books, raw, clock, gen)
            p == persist(res.books, po, file, tmp)
        IN  IF ~res.wrote
            THEN /\ po = "ok"
                 /\ bulk' = [bulk EXCEPT !.idx = NextItem(@, Len(bulk.items), TRUE),
                                         !.added = Append(@, Added(res, FALSE, raw))]
                 /\ books' = res.books
                 /\ running' = AfterItem(bulk.owner)
                 /\ UNCHANGED <<up, file, tmp, reqs, last, ipHits>>
            ELSE /\ file' = p.file
                 /\ tmp' = p.tmp
                 /\ IF p.crashed
                    THEN Dies
                    ELSE /\ books' = IF p.thrown THEN AfterFailedWrite(books, res.books)
                                     ELSE res.books
                         /\ bulk' = [bulk EXCEPT !.idx = NextItem(@, Len(bulk.items), p.thrown),
                                                 !.added = Append(@, Added(res, p.thrown, raw))]
                         /\ running' = AfterItem(bulk.owner)
                         /\ reqs' = Unrace(reqs)
                         /\ UNCHANGED <<up, last, ipHits>>
    /\ UNCHANGED <<clock, served, asked, log, form, state>>

\* sendJSON(res, 200, ok(added, { mode }))
BulkEnd ==
    /\ up
    /\ bulk.owner # NoReq
    /\ running \in {NoReq, bulk.owner}
    /\ bulk.idx > Len(bulk.items)
    /\ last' = [NoResp EXCEPT !.op = "bulk", !.n = served, !.code = 200,
                              !.mode = bulk.mode, !.items = bulk.items,
                              !.added = bulk.added]
    /\ bulk' = NoBulk
    /\ running' = NoReq
    /\ UNCHANGED <<up, books, file, tmp, clock, reqs, served, asked, ipHits, log, form, state>>

-----------------------------------------------------------------------------
(* PUT /api/books/:id with its await: the handler is suspended while         *)
(* readBody(req) collects the body, and resumes with the patch               *)

\* the patch's version is the record's: the same value, or a numeral of it
Carries(pv, bv) ==
    \/ pv = bv
    \/ bv.k = "num" /\ NotNullish(pv) /\ ~ToNumber(pv).nan /\ ToNumber(pv).n = bv.n

RacePatch(ver, r) == [EmptyInput EXCEPT !.rating = Num(r), !.version = ver]

RacePatches ==
    { RacePatch(ver, r) : ver \in {Num(1), Digits(<<1>>)}, r \in {100, 200} }

\* c's request and d's are both being read, for the same record, and both
\* carry the version that record has now
RaceStarts(rq, c, d) ==
    /\ rq[c].st = "reading"
    /\ rq[d].st = "reading"
    /\ rq[c].id = rq[d].id
    /\ Found(books, rq[c].id)
    /\ Carries(rq[c].patch.version, books[FindIndex(books, rq[c].id)].version)
    /\ Carries(rq[d].patch.version, books[FindIndex(books, rq[c].id)].version)

\* the request arrives: the handler runs up to `await readBody(req)`
PutArrive(c) ==
    /\ CanRun
    /\ reqs[c].st # "reading"
    /\ \E id \in {Txt("b1")}, patch \in RacePatches :
        LET rq == [reqs EXCEPT ![c] = [IdleReq EXCEPT !.st = "reading", !.id = id,
                                                      !.patch = patch]]
        IN reqs' = [d \in Clients |->
                        IF \E e \in Clients \ {d} : RaceStarts(rq, d, e)
                        THEN [rq[d] EXCEPT !.raced = TRUE]
                        ELSE rq[d]]
    /\ served' = served + 1
    /\ UNCHANGED <<up, books, file, tmp, clock, running, bulk, last, asked, ipHits, log, form, state>>

\* the body is complete: updateBook(id, patch), sendJSON
PutResume(c) ==
    /\ up
    /\ running = NoReq
    /\ reqs[c].st = "reading"
    /\ \E po \in PersistOutcomes :
        LET res == updateBook(books, reqs[c].id, reqs[c].patch, clock)
            thrown == res.wrote /\ persist(res.books, po, file, tmp).thrown
            answered == [reqs[c] EXCEPT !.st = "done",
                            !.code = IF thrown THEN 500 ELSE res.code,
                            !.err = IF thrown THEN "INTERNAL" ELSE res.err,
                            !.expected = IF thrown THEN Absent ELSE res.expected]
        IN Handle("update", served, reqs[c].id, reqs[c].patch, res, po,
                  [reqs EXCEPT ![c] = answered])
    /\ UNCHANGED served

-----------------------------------------------------------------------------
(* Specifications *)

\* every handler as one step from its request to its response
Next ==
    \/ Start
    \/ Tick
    \/ Crash
    \/ CreateReq
    \/ UpdateReq
    \/ DeleteReq
    \/ GetReq
    \/ BulkBegin
    \/ BulkItem
    \/ BulkEnd

Spec == Init /\ [][Next]_vars

\* concurrent requests: PUT handlers suspended in readBody while others run
NextConc ==
    \/ Start
    \/ Tick
    \/ Crash
    \/ \E c \in Clients : PutArrive(c)
    \/ \E c \in Clients : PutResume(c)
    \/ GetReq
    \/ BulkBegin
    \/ BulkItem
    \/ BulkEnd

SpecConc == Init /\ [][NextConc]_vars

\* the server started in a directory that may hold a data.json already
InitLoad ==
    /\ up = FALSE
    /\ books = <<>>
    /\ file \in {NoFile} \cup OldFiles
    /\ tmp = "none"
    /\ clock = 0
    /\ reqs = NoRequests
    /\ running = NoReq
    /\ bulk = NoBulk
    /\ last = NoResp
    /\ served = 0
    /\ asked = NoParams
    /\ ipHits = NoHits
    /\ log = NoLog
    /\ form = NoForm
    /\ state = NoState

NextLoad ==
    \/ Start
    \/ Tick
    \/ Crash
    \/ CreateReq
    \/ UpdateReq
    \/ DeleteReq
    \/ GetReq

SpecLoad == InitLoad /\ [][NextLoad]_vars

\* GET /api/books: applyQuery on the collection, answered through maybe304;
\* `cached` is whether the request's If-None-Match is the ETag of the result.
\* An exception of applyQuery is answered 500 INTERNAL.
ListReq ==
    /\ CanRun
    /\ \E cached \in BOOLEAN, r \in applyQuery(books, asked) :
        /\ last' = [NoResp EXCEPT
                        !.op = "list", !.n = served + 1, !.query = asked,
                        !.code = IF r.thrown THEN 500 ELSE IF cached THEN 304 ELSE 200,
                        !.err = IF r.thrown THEN "INTERNAL" ELSE "",
                        !.list = IF r.thrown \/ cached THEN <<>> ELSE r.list,
                        !.meta = IF r.thrown \/ cached THEN NoMeta ELSE r.meta]
        /\ books' = r.left
    /\ served' = served + 1
    /\ UNCHANGED <<up, file, tmp, clock, reqs, running, bulk, asked, ipHits, log, form, state>>

\* the server is up on one of the collections and a GET /api/books is in flight
InitQuery ==
    /\ up = TRUE
    /\ books \in QueryCollections
    /\ file = Stringify(books)
    /\ tmp = "none"
    /\ clock = 0
    /\ reqs = NoRequests
    /\ running = NoReq
    /\ bulk = NoBulk
    /\ last = NoResp
    /\ served = 0
    /\ asked \in QueryParams
    /\ ipHits = NoHits
    /\ log = NoLog
    /\ form = NoForm
    /\ state = NoState

\* GET /api/stats
StatsReq ==
    /\ CanRun
    /\ last' = [NoResp EXCEPT !.op = "stats", !.n = served + 1, !.code = 200,
                              !.stats = Stats(books)]
    /\ served' = served + 1
    /\ UNCHANGED <<up, books, file, tmp, clock, reqs, running, bulk, asked, ipHits, log, form, state>>

\* GET /api/health
HealthReq ==
    /\ CanRun
    /\ last' = [NoResp EXCEPT !.op = "health", !.n = served + 1, !.code = 200]
    /\ served' = served + 1
    /\ UNCHANGED <<up, books, file, tmp, clock, reqs, running, bulk, asked, ipHits, log, form, state>>

NextQuery ==
    \/ ListReq
    \/ GetReq
    \/ StatsReq
    \/ HealthReq

SpecQuery == InitQuery /\ [][NextQuery]_vars

\* The text a caller puts in the query string for a number, in tenths: the
\* offsets a caller of the model reaches are whole numbers below 10, and 1.5.
NumberText(x) ==
    CASE x = 15 -> Txt("1.5")
      [] x % 10 = 0 /\ x >= 0 /\ x < 100 -> Digits(<<x \div 10>>)

\* The offset of the page after the one `meta` came with: offset + limit,
\* with the limit meta echoes. A limit of NaN arrives as null in the JSON
\* body, and a number plus null is the number.
StepOffset(meta) ==
    IF meta.limit.nan THEN meta.offset.x ELSE meta.offset.x + meta.limit.x

\* the caller goes on until the offset is at or beyond meta.total
MorePages(meta) == StepOffset(meta) < 10 * meta.total

\* A caller takes the pages of one query in turn: GET /api/books with no
\* If-None-Match, then the same with offset stepped by limit. `seen` is the
\* pages so far, one after the other (a history value).
PageReq ==
    /\ up
    /\ running = NoReq
    /\ served < MaxPages
    /\ \/ last.op = "none"
       \/ last.op = "page" /\ last.code = 200 /\ MorePages(last.meta)
    /\ \E r \in applyQuery(books, asked) :
        /\ last' = [NoResp EXCEPT
                        !.op = "page", !.n = served + 1, !.query = asked,
                        !.code = IF r.thrown THEN 500 ELSE 200,
                        !.err = IF r.thrown THEN "INTERNAL" ELSE "",
                        !.list = r.list, !.meta = r.meta,
                        !.seen = last.seen \o r.list]
        /\ books' = r.left
        /\ asked' = IF r.thrown \/ ~MorePages(r.meta) THEN asked
                    ELSE [asked EXCEPT !.offset = NumberText(StepOffset(r.meta))]
    /\ served' = served + 1
    /\ UNCHANGED <<up, file, tmp, clock, reqs, running, bulk, ipHits, log, form, state>>

\* the server is up on one of the collections and a caller is about to ask
\* for the first page of a query
InitPages ==
    /\ up = TRUE
    /\ books \in QueryCollections
    /\ file = Stringify(books)
    /\ tmp = "none"
    /\ clock = 0
    /\ reqs = NoRequests
    /\ running = NoReq
    /\ bulk = NoBulk
    /\ last = NoResp
    /\ served = 0
    /\ asked \in {p \in QueryParams : p.offset = Absent}
    /\ ipHits = NoHits
    /\ log = NoLog
    /\ form = NoForm
    /\ state = NoState

NextPages == PageReq

SpecPages == InitPages /\ [][NextPages]_vars

-----------------------------------------------------------------------------
(* The limiter in front of the routes *)

\* the longest array kept for an IP, and how often time passes
MaxHits == 102
MaxQuiet == 1

\* IP "a" sends bursts and at most one OPTIONS request; IP "b" asks once
MayAsk(ip, method) ==
    CASE method = "OPTIONS" -> ip = "a" /\ log[ip].options = EmptyBag
      [] ip = "a" -> TRUE
      [] OTHER -> method = "GET" /\ ipHits[ip] = <<>>

\* a burst of IP "a" is over when it has reached LIMIT - 1 requests
FullBurst == LIMIT - 1

RateMethods == {"OPTIONS", "GET", "DELETE"}

\* the disk does not fail while the limiter is watched
RateDisk == {"ok"}

\* sendJSON(res, 429, err('Too many requests', 'RATE_LIMIT'))
TooMany(n) == [NoResp EXCEPT !.op = "limited", !.n = n, !.code = 429, !.err = "RATE_LIMIT"]

\* One request of `ip`: OPTIONS is answered first; every other method is
\* logged and goes through rateLimited(ip) before the routes, here
\* GET /api/health and DELETE /api/books/b1.
RateReq(ip) ==
    /\ up
    /\ running = NoReq
    /\ \E method \in {m \in RateMethods : MayAsk(ip, m)}, po \in RateDisk :
        LET r == rateLimited(ipHits[ip], clock)
            made == [log EXCEPT ![ip].made = Logged(@, clock)]
            through == [made EXCEPT ![ip].served = Logged(@, clock)]
            res == deleteBook(books, Txt("b1"))
            p == persist(res.books, po, file, tmp)
        IN  IF method = "OPTIONS"
            THEN /\ po = "ok"
                 /\ last' = [NoResp EXCEPT !.op = "options", !.n = last.n + 1, !.code = 200]
                 /\ log' = [log EXCEPT ![ip].options = Logged(@, clock)]
                 /\ UNCHANGED <<up, books, file, tmp, reqs, running, bulk, ipHits>>
            ELSE /\ Len(r.arr) <= MaxHits
                 /\ IF r.limited
                    THEN /\ po = "ok"
                         /\ last' = TooMany(last.n + 1)
                         /\ ipHits' = [ipHits EXCEPT ![ip] = r.arr]
                         /\ log' = made
                         /\ UNCHANGED <<up, books, file, tmp, reqs, running, bulk>>
                    ELSE IF method = "GET"
                    THEN /\ po = "ok"
                         /\ last' = [NoResp EXCEPT !.op = "health", !.n = last.n + 1, !.code = 200]
                         /\ ipHits' = [ipHits EXCEPT ![ip] = r.arr]
                         /\ log' = through
                         /\ UNCHANGED <<up, books, file, tmp, reqs, running, bulk>>
                    ELSE IF ~res.wrote
                    THEN /\ po = "ok"
                         /\ books' = res.books
                         /\ last' = Response("delete", last.n + 1, Txt("b1"), EmptyInput, res, FALSE)
                         /\ ipHits' = [ipHits EXCEPT ![ip] = r.arr]
                         /\ log' = through
                         /\ UNCHANGED <<up, file, tmp, reqs, running, bulk>>
                    ELSE /\ file' = p.file
                         /\ tmp' = p.tmp
                         /\ IF p.crashed
                            THEN Dies /\ log' = made
                            ELSE /\ log' = through
                                 /\ books' = IF p.thrown THEN AfterFailedWrite(books, res.books)
                                             ELSE res.books
                                 /\ last' = Response("delete", last.n + 1, Txt("b1"), EmptyInput,
                                                     res, p.thrown)
                                 /\ ipHits' = [ipHits EXCEPT ![ip] = r.arr]
                                 /\ UNCHANGED <<up, reqs, running, bulk>>
    /\ UNCHANGED <<clock, served, asked, form, state>>

\* the intervals between bursts: 5 minutes, and 1 ms more
Quiets == {HORIZON, HORIZON + 1}

\* Time passes between two bursts of IP "a": a burst is empty or full.
Elapse ==
    /\ up
    /\ clock < MaxQuiet * HORIZON
    /\ \/ ipHits["a"] = <<>>
       \/ Len(ipHits["a"]) >= FullBurst
    /\ \E d \in Quiets : clock' = clock + d
    /\ UNCHANGED <<up, books, file, tmp, reqs, running, bulk, last, served, asked,
                   ipHits, log, form, state>>

\* the server is up on the seed collection and nobody has asked anything
InitRate ==
    /\ up = TRUE
    /\ books = Seed(0)
    /\ file = Stringify(books)
    /\ tmp = "none"
    /\ clock = 0
    /\ reqs = NoRequests
    /\ running = NoReq
    /\ bulk = NoBulk
    /\ last = NoResp
    /\ served = 0
    /\ asked = NoParams
    /\ ipHits = NoHits
    /\ log = NoLog
    /\ form = NoForm
    /\ state = NoState

NextRate ==
    \/ \E ip \in Ips : RateReq(ip)
    \/ Elapse

SpecRate == InitRate /\ [][NextRate]_vars

-----------------------------------------------------------------------------
(* Two tabs of public/app.js *)

\* the requests the tabs send
MaxClicks == 3

\* what a user types into #title before clicking Update
TypedTitles == {Txt("Dune")}

\* the Edit button of a row: api('GET', '/' + id); the fields are filled
\* when the response arrives
EditClick(c) ==
    /\ up
    /\ served < MaxClicks
    /\ \E id \in TargetIds :
        LET i == FindIndex(books, id)
        IN  /\ last' = [NoResp EXCEPT !.op = "get", !.n = last.n + 1, !.id = id,
                            !.code = IF i = 0 THEN 404 ELSE 200,
                            !.err = IF i = 0 THEN "NOT_FOUND" ELSE "",
                            !.idx = i,
                            !.book = IF i = 0 THEN NoBook ELSE books[i]]
            /\ form' = [form EXCEPT ![c].wait =
                            Append(@, Reply("edit", i # 0, IF i = 0 THEN NoBook ELSE books[i]))]
    /\ served' = served + 1
    /\ UNCHANGED <<up, books, file, tmp, clock, reqs, running, bulk, asked, ipHits, log, state>>

\* the Update button, after the user has typed an id or a title or neither:
\* api('PUT', '/' + id, patch) with patch.version from the version field;
\* the server runs updateBook and persist
UpdateClick(c) ==
    /\ up
    /\ served < MaxClicks
    /\ \E id \in {form[c].id} \cup TargetIds, title \in {form[c].title} \cup TypedTitles :
        LET patch == [EmptyInput EXCEPT !.title = title,
                                        !.version = SentVersion(form[c].version)]
            res == updateBook(books, id, patch, clock)
            p == persist(res.books, "ok", file, tmp)
            done == res.code = 200
            others(f) == IF done
                         THEN [f EXCEPT !.stale = @ \cup {id},
                                        !.wait = [k \in DOMAIN @ |->
                                                    [@[k] EXCEPT !.stale = @ \cup {id}]]]
                         ELSE f
        IN  /\ Truthy(id)
            /\ books' = res.books
            /\ file' = IF res.wrote THEN p.file ELSE file
            /\ tmp' = IF res.wrote THEN p.tmp ELSE tmp
            /\ last' = Response("update", last.n + 1, id, patch, res, FALSE)
            /\ form' = [d \in Clients |->
                            IF d = c
                            THEN [form[c] EXCEPT !.id = id, !.title = title,
                                      !.wait = Append(@, Reply("update", done, res.book))]
                            ELSE others(form[d])]
    /\ served' = served + 1
    /\ UNCHANGED <<up, clock, reqs, running, bulk, asked, ipHits, log, state>>

\* a response arrives and the handler that awaited it goes on
Receive(c) ==
    /\ \E k \in DOMAIN form[c].wait :
        LET r == form[c].wait[k]
            f == [form[c] EXCEPT !.wait = Without(@, k)]
        IN  form' = [form EXCEPT ![c] =
                        IF ~r.ok THEN f
                        ELSE IF r.op = "edit" THEN Filled(f, r.book, r.stale)
                        ELSE Renewed(f, r.book, r.stale)]
    /\ UNCHANGED <<up, books, file, tmp, clock, reqs, running, bulk, last, served, asked,
                   ipHits, log, state>>

\* the server is up on the seed; each tab is empty or has loaded a record
InitUI ==
    /\ up = TRUE
    /\ books = Seed(0)
    /\ file = Stringify(books)
    /\ tmp = "none"
    /\ clock = 0
    /\ reqs = NoRequests
    /\ running = NoReq
    /\ bulk = NoBulk
    /\ last = NoResp
    /\ served = 0
    /\ asked = NoParams
    /\ ipHits = NoHits
    /\ log = NoLog
    /\ form \in [Clients -> {EmptyForm} \cup
                    {Filled(EmptyForm, Seed(0)[i], {}) : i \in 1..2}]
    /\ state = NoState

NextUI ==
    \/ \E c \in Clients : EditClick(c)
    \/ \E c \in Clients : UpdateClick(c)
    \/ \E c \in Clients : Receive(c)

SpecUI == InitUI /\ [][NextUI]_vars

-----------------------------------------------------------------------------
(* The pager of public/app.js *)

\* the requests the tab sends
MaxEvents == 3

\* the options of #page-size, the texts typed into #search and the
\* th[data-sort] headers clicked
PageSizes == {1, 2}
SearchTexts == {Txt(""), Txt("Martin")}
SortKeys == {"title", "rating"}

\* refresh() from the view `st`: the GET /api/books is sent and answered;
\* the response is on its way
Refresh(st) ==
    /\ up
    /\ served < MaxEvents
    /\ \E r \in applyQuery(books, RefreshParams(st)) :
        /\ state' = [st EXCEPT !.wait = Append(@, Listed(r))]
        /\ books' = r.left
        /\ last' = [NoResp EXCEPT
                        !.op = "list", !.n = last.n + 1, !.query = RefreshParams(st),
                        !.code = IF r.thrown THEN 500 ELSE 200,
                        !.err = IF r.thrown THEN "INTERNAL" ELSE "",
                        !.list = r.list, !.meta = r.meta]
    /\ served' = served + 1
    /\ UNCHANGED <<up, file, tmp, clock, reqs, running, bulk, asked, ipHits, log, form>>

\* els.refreshBtn click
RefreshClick ==
    /\ up
    /\ Refresh([state EXCEPT !.offset = 0])

\* els.pageSize change
PageSizeChange ==
    /\ up
    /\ \E n \in PageSizes \ {state.limit} :
        Refresh([state EXCEPT !.limit = n, !.offset = 0])

\* els.prevPage click
PrevClick ==
    /\ up
    /\ Refresh([state EXCEPT !.offset = IF @ - state.limit > 0 THEN @ - state.limit ELSE 0])

\* els.nextPage click
NextClick ==
    /\ state.offset + state.limit < state.total
    /\ Refresh([state EXCEPT !.offset = @ + state.limit])

\* els.search input: clearTimeout(searchTimer); searchTimer = setTimeout(...)
SearchInput ==
    /\ \E t \in SearchTexts \ {state.timer, state.q} : state' = [state EXCEPT !.timer = t]
    /\ UNCHANGED <<up, books, file, tmp, clock, reqs, running, bulk, last, served, asked,
                   ipHits, log, form>>

\* the search timer fires
SearchFires ==
    /\ state.timer # NoTimer
    /\ Refresh([state EXCEPT !.q = state.timer, !.offset = 0, !.timer = NoTimer])

\* a th[data-sort] click
SortClick ==
    /\ up
    /\ \E key \in SortKeys :
        Refresh([state EXCEPT
                    !.dir = IF state.sort = key /\ @ = "asc" THEN "desc" ELSE "asc",
                    !.sort = key, !.offset = 0])

\* the Delete button of a row, confirmed: api('DELETE', '/' + id); the
\* server runs deleteBook and persist
DeleteClick ==
    /\ up
    /\ served < MaxEvents
    /\ \E i \in DOMAIN state.rows :
        LET res == deleteBook(books, state.rows[i])
            p == persist(res.books, "ok", file, tmp)
        IN  /\ books' = res.books
            /\ file' = IF res.wrote THEN p.file ELSE file
            /\ tmp' = IF res.wrote THEN p.tmp ELSE tmp
            /\ last' = Response("delete", last.n + 1, state.rows[i], EmptyInput, res, FALSE)
            /\ state' = [state EXCEPT !.wait = Append(@, Deleted(res.code = 200))]
    /\ served' = served + 1
    /\ UNCHANGED <<up, clock, reqs, running, bulk, asked, ipHits, log, form>>

\* a response arrives: refresh() stores meta.total and renders the rows (a
\* failure only shows a toast); the Delete handler calls refresh()
Arrive ==
    \E k \in DOMAIN state.wait :
        LET r == state.wait[k]
            st == [state EXCEPT !.wait = Without(@, k)]
        IN  IF r.op = "delete" /\ r.ok
            THEN Refresh(st)
            ELSE /\ state' = IF r.op = "refresh" /\ r.ok
                             THEN [st EXCEPT !.total = r.total, !.rows = r.rows]
                             ELSE st
                 /\ UNCHANGED <<up, books, file, tmp, clock, reqs, running, bulk, last,
                                served, asked, ipHits, log, form>>

\* the page has just run init(): the first refresh() is on its way
InitPager ==
    /\ up = TRUE
    /\ books = Seed(0)
    /\ file = Stringify(books)
    /\ tmp = "none"
    /\ clock = 0
    /\ reqs = NoRequests
    /\ running = NoReq
    /\ bulk = NoBulk
    /\ last = NoResp
    /\ served = 0
    /\ asked = NoParams
    /\ ipHits = NoHits
    /\ log = NoLog
    /\ form = NoForm
    /\ state \in UNION { { [FreshState(n) EXCEPT !.wait = <<Listed(r)>>] :
                              r \in applyQuery(Seed(0), RefreshParams(FreshState(n))) } :
                            n \in PageSizes }

NextPager ==
    \/ RefreshClick
    \/ PageSizeChange
    \/ PrevClick
    \/ NextClick
    \/ SearchInput
    \/ SearchFires
    \/ SortClick
    \/ DeleteClick
    \/ Arrive

SpecPager == InitPager /\ [][NextPager]_vars

-----------------------------------------------------------------------------
(* Properties *)

\* the step is a handler of `op` answering a request
Answers(op) == last'.n # last.n /\ last'.op = op

\* the step is a PUT handler answering with success
UpdateSucceeds == Answers("update") /\ last'.code = 200

\* the record a PUT for `id` is applied to
Target(id) == books[FindIndex(books, id)]

IsPositiveInteger(v) == v.k = "num" /\ v.n >= 1

\* C1: after any sequence of create, update, delete and bulk import, no two
\* records of the collection have the same id.
C1_UniqueIds ==
    \A i, j \in 1..Len(books) : i # j => books[i].id # books[j].id

\* C2: every successful update of a record at version v leaves it at version
\* v + 1, so a version is always a positive integer.
C2_VersionPlusOne ==
    [][UpdateSucceeds =>
        /\ IsPositiveInteger(Target(last'.id).version)
        /\ books'[last'.idx].version = Num(Target(last'.id).version.n + 1)]_vars

\* the patch carries a version, and it is not the record's
Stale(patch, b) == NotNullish(patch.version) /\ ~Carries(patch.version, b.version)

\* C3: an update of an existing record whose patch carries a version other
\* than the record's fails with VERSION_CONFLICT, reports the record's
\* version, and changes neither the collection nor the files, whatever else
\* the patch holds.
C3_StaleRejected ==
    [][(Answers("update") /\ Found(books, last'.id)
            /\ Stale(last'.input, Target(last'.id))) =>
        /\ last'.code = 409
        /\ last'.err = "VERSION_CONFLICT"
        /\ last'.expected = Target(last'.id).version
        /\ books' = books
        /\ file' = file
        /\ tmp' = tmp]_vars

\* C3's case: a stale update was answered, its patch invalid besides
C3_Witness ==
    /\ last.op = "update"
    /\ last.err = "VERSION_CONFLICT"
    /\ ~validateBook(last.input, TRUE).ok
    /\ Found(books, last.id)
    /\ Stale(last.input, Target(last.id))

\* C4: a successful update changes neither the record's id nor its createdAt.
C4_IdAndCreatedAtKept ==
    [][UpdateSucceeds =>
        /\ books'[last'.idx].id = Target(last'.id).id
        /\ books'[last'.idx].createdAt = Target(last'.id).createdAt]_vars

\* C5: after a mutating operation has returned success, the collection in the
\* data file is the collection in memory.
C5_FileIsMemory ==
    (/\ up
     /\ bulk.owner = NoReq
     /\ last.op \in {"create", "update", "delete", "bulk"}
     /\ last.code \in {200, 201})
        => (file.st = "ok" /\ ParseFile(file) = books)

\* C6: whenever the process dies while writing the collection, the data file
\* holds a complete collection (or does not exist yet), never a part of one.
C6_NeverTorn == file.st # "torn"

\* the two requests of a race have both been answered, and nothing has run since
RaceOver(c, d) ==
    /\ c # d
    /\ up
    /\ bulk.owner = NoReq
    /\ last.op = "update"
    /\ reqs[c].st = "done" /\ reqs[c].raced /\ reqs[c].code # 500
    /\ reqs[d].st = "done" /\ reqs[d].raced /\ reqs[d].code # 500

\* w won the race against l: w's patch is applied at version v + 1, l was refused
Won(w, l) ==
    /\ reqs[w].code = 200
    /\ reqs[l].code = 409
    /\ reqs[l].err = "VERSION_CONFLICT"
    /\ Found(books, reqs[w].id)
    /\ Target(reqs[w].id).version = Num(ToNumber(reqs[w].patch.version).n + 1)
    /\ Target(reqs[w].id).rating = validateBook(reqs[w].patch, TRUE).value.rating

\* C7: of two updates that both carry the version v the record has, exactly
\* one succeeds, leaving the record at v + 1 with its fields, and the other
\* fails with VERSION_CONFLICT.
C7_OneWinner ==
    \A c, d \in Clients : RaceOver(c, d) => (Won(c, d) \/ Won(d, c))

\* C8: persisting a reachable collection and loading it again through the
\* startup path gives back the same collection.
C8_RoundTrip ==
    up => migrateDb(ParseFile(Stringify(books)), clock) = books

\* the step is one turn of the bulk import's loop
BulkTurn == bulk.owner # NoReq /\ bulk'.owner # NoReq /\ bulk'.idx = bulk.idx + 1

\* C9: when validateBook reports a problem for the input of createBook or
\* for the patch updateBook validates, the call fails with VALIDATION and
\* the problem list, and the collection and the files are as before.
C9_InvalidNotApplied ==
    [][/\ (Answers("create") /\ ~validateBook(last'.input, FALSE).ok) =>
            /\ last'.code = 400
            /\ last'.err = "VALIDATION"
            /\ last'.problems = validateBook(last'.input, FALSE).problems
            /\ books' = books /\ file' = file /\ tmp' = tmp
       /\ (Answers("update") /\ Found(books, last'.id)
                /\ ~VersionConflict(Target(last'.id), last'.input)
                /\ ~validateBook(last'.input, TRUE).ok) =>
            /\ last'.code = 400
            /\ last'.err = "VALIDATION"
            /\ last'.problems = validateBook(last'.input, TRUE).problems
            /\ books' = books /\ file' = file /\ tmp' = tmp
       /\ (BulkTurn /\ ~validateBook(bulk.items[bulk.idx], FALSE).ok) =>
            /\ bulk'.added[bulk.idx].err = "VALIDATION"
            /\ books' = books /\ file' = file /\ tmp' = tmp]_vars

\* C9's case: an update was refused for a patch with a valid field and an
\* invalid one
C9_Witness ==
    /\ last.op = "update"
    /\ last.err = "VALIDATION"
    /\ last.problems = <<RatingProblem>>
    /\ NotNullish(last.input.year)

\* C10: while a bulk import is under way no other request is answered, taken
\* up or resumed.
C10_Uninterrupted ==
    [][(bulk.owner # NoReq /\ up') =>
        /\ served' = served
        /\ \A c \in Clients : reqs'[c].st = reqs[c].st
        /\ last' # last => last'.op = "bulk"]_vars

\* C10's case: an import in replace mode is part way through its items while a
\* PUT handler is suspended in readBody
C10_Witness ==
    /\ bulk.owner # NoReq
    /\ bulk.mode = "replace"
    /\ bulk.idx > 1
    /\ bulk.idx <= Len(bulk.items)
    /\ \E c \in Clients : reqs[c].st = "reading"

\* the input carries an id that a record of the collection has
TakenId(input) == Truthy(input.id) /\ Found(books, input.id)

\* C11 as stated: createBook with an id that a record of the collection has
\* fails with CONFLICT, whatever else the input holds, and changes neither the
\* collection nor the data file.
C11_TakenIdAlwaysConflict ==
    [][(Answers("create") /\ TakenId(last'.input)) =>
        /\ last'.code = 409
        /\ last'.err = "CONFLICT"
        /\ books' = books /\ file' = file]_vars

\* C11: createBook with an input that passes validateBook and whose id a record
\* of the collection has fails with CONFLICT and changes neither the
\* collection nor the files; so does such an item of a bulk import.
C11_TakenIdConflict ==
    [][/\ (Answers("create") /\ TakenId(last'.input)
                /\ validateBook(last'.input, FALSE).ok) =>
            /\ last'.code = 409
            /\ last'.err = "CONFLICT"
            /\ books' = books /\ file' = file /\ tmp' = tmp
       /\ (BulkTurn /\ TakenId(bulk.items[bulk.idx])
                /\ validateBook(bulk.items[bulk.idx], FALSE).ok) =>
            /\ bulk'.added[bulk.idx].err = "CONFLICT"
            /\ books' = books /\ file' = file /\ tmp' = tmp]_vars

\* C11's case: a create with a valid input and a taken id was answered
C11_Witness ==
    /\ last.op = "create"
    /\ last.err = "CONFLICT"
    /\ validateBook(last.input, FALSE).ok
    /\ TakenId(last.input)

\* C12: a get, an update or a delete of an id that no record has fails with
\* NOT_FOUND and changes neither the collection nor the files; a delete of an
\* id a record has removes that one record, returns it, and keeps the others
\* in their order.
C12_NotFoundAndDelete ==
    [][/\ (\E op \in {"get", "update", "delete"} :
                Answers(op) /\ ~Found(books, last'.id)) =>
            /\ last'.code = 404
            /\ last'.err = "NOT_FOUND"
            /\ books' = books /\ file' = file /\ tmp' = tmp
       /\ (Answers("delete") /\ Found(books, last'.id) /\ last'.code # 500) =>
            /\ last'.code = 200
            /\ \E i \in 1..Len(books) :
                /\ books[i].id = last'.id
                /\ last'.book = books[i]
                /\ Len(books') = Len(books) - 1
                /\ \A j \in 1..Len(books') :
                        books'[j] = books[IF j < i THEN j ELSE j + 1]]_vars

\* C12's case: the first record was deleted, the two others are kept in their
\* order, and an update of the deleted id was answered NOT_FOUND
C12_Witness ==
    /\ last.op = "update"
    /\ last.err = "NOT_FOUND"
    /\ Len(books) = 2
    /\ books[1].id = Txt("b2")
    /\ books[2].id = Txt("b3")

\* createBook accepts `input` in the collection as it is now
Accepted(input) == validateBook(input, FALSE).ok /\ ~TakenId(input)

\* C13: a bulk import of N items answers with N results in item order: result
\* i is the record created from item i when createBook accepts the item in
\* the collection items 1..i-1 left, and otherwise an error entry holding
\* the item; the loop goes on to the next item after a rejected one.
C13_BulkResults ==
    [][/\ (bulk.owner # NoReq /\ bulk'.owner # NoReq /\ bulk' # bulk) =>
            LET i == bulk.idx
                raw == bulk.items[i]
            IN  /\ bulk'.idx = i + 1
                /\ bulk'.added = Append(bulk.added, bulk'.added[i])
                /\ IF Accepted(raw)
                   THEN \/ /\ bulk'.added[i].ok
                            /\ books' = Append(books, bulk'.added[i].book)
                            /\ bulk'.added[i].book.title = raw.title
                         \/ /\ bulk'.added[i].err = "UNKNOWN"
                            /\ tmp' = "torn"
                   ELSE /\ ~bulk'.added[i].ok
                        /\ bulk'.added[i].err \in {"VALIDATION", "CONFLICT"}
                        /\ bulk'.added[i].input = raw
                        /\ books' = books
       /\ Answers("bulk") =>
            /\ last'.added = bulk.added
            /\ Len(last'.added) = Len(last'.items)]_vars

\* C13's case: an import of three items, the second without a title, was
\* answered with the first and the third created and the second an error
C13_Witness ==
    /\ last.op = "bulk"
    /\ Len(last.added) = 3
    /\ last.added[1].ok
    /\ last.added[2].err = "VALIDATION"
    /\ last.added[2].input = NoTitle
    /\ last.added[3].ok
    /\ last.added[3].book.id = Txt("n1")

\* the records of the results that are records, in result order
RECURSIVE CreatedOf(_)
CreatedOf(added) ==
    IF added = <<>> THEN <<>>
    ELSE CreatedOf(SubSeq(added, 1, Len(added) - 1))
            \o (IF added[Len(added)].ok THEN <<added[Len(added)].book>> ELSE <<>>)

\* every write of the import went through
AllWritten(added) == \A i \in 1..Len(added) : added[i].err # "UNKNOWN"

\* C14: when a bulk import has been through its items, the collection in
\* replace mode is the records created from its accepted items, in item
\* order, and nothing else; in append mode it is the collection the import
\* found, unchanged, followed by those records.
C14_ReplaceAndAppend ==
    (bulk.owner # NoReq /\ bulk.idx > Len(bulk.items) /\ AllWritten(bulk.added)) =>
        /\ bulk.mode = "replace" => books = CreatedOf(bulk.added)
        /\ bulk.mode = "append" => books = bulk.before \o CreatedOf(bulk.added)

\* C14's case: an import in replace mode that found records has been through
\* its items and created two
C14_Witness ==
    /\ bulk.owner # NoReq
    /\ bulk.idx > Len(bulk.items)
    /\ bulk.mode = "replace"
    /\ Len(bulk.before) >= 3
    /\ Len(CreatedOf(bulk.added)) = 2
    /\ AllWritten(bulk.added)

\* the record createBook made from `input`, as the claim describes it; an
\* input gives an id, or an author, when the key's value is truthy
AsCreated(book, input) ==
    /\ book.version = Num(1)
    /\ book.createdAt = book.updatedAt
    /\ book.title = input.title
    /\ ~Truthy(input.author) => book.author = UnknownAuthor
    /\ Truthy(input.id) => book.id = input.id
    /\ ~Truthy(input.id) => book.id \in GenIds

\* C15: a successful createBook appends one record to the end of the
\* collection and returns it: its version is 1, its createdAt is its
\* updatedAt, its author is "Unknown" when the input gives none, its id is the
\* input's when it gives one and a generated one otherwise.
C15_CreatedRecord ==
    [][/\ (Answers("create") /\ last'.code = 201) =>
            /\ books' = Append(books, last'.book)
            /\ AsCreated(last'.book, last'.input)
       /\ (BulkTurn /\ bulk'.added[bulk.idx].ok) =>
            /\ books' = Append(books, bulk'.added[bulk.idx].book)
            /\ AsCreated(bulk'.added[bulk.idx].book, bulk.items[bulk.idx])]_vars

\* C15's case: a create with no id and no author was answered; and one with
\* an id and a version of its own
C15_Witness ==
    /\ last.op = "create"
    /\ last.code = 201
    /\ last.input = [Dune EXCEPT !.id = Txt("n1"), !.rating = Num(455), !.version = Num(7)]
    /\ Len(books) = 5
    /\ books[4].id \in GenIds
    /\ books[4].author = UnknownAuthor
    /\ books[5] = last.book

\* C16: after any sequence of create, update and bulk-import operations, the
\* title of every record of the collection is a non-empty string.
C16_TitleNonEmpty ==
    \A i \in 1..Len(books) : IsString(books[i].title) /\ Truthy(books[i].title)

\* a year that is null or an integer of 0..3000
YearInRange(v) == v.k = "null" \/ (v.k = "num" /\ v.n >= 0 /\ v.n <= YearMax)

\* a rating that is null or a number of 0..5 with at most one decimal (in
\* hundredths: a multiple of ten)
RatingInRange(v) ==
    v.k = "null" \/ (v.k = "num" /\ v.n >= 0 /\ v.n <= RatingMax /\ v.n % 10 = 0)

\* C17: after any sequence of create, update and bulk-import operations, every
\* record has a year that is null or an integer of 0..3000, a rating that is
\* null or a number of 0..5 with at most one decimal, and tags that are an
\* array of at most 20 strings.
C17_FieldsInRange ==
    \A i \in 1..Len(books) :
        /\ YearInRange(books[i].year)
        /\ RatingInRange(books[i].rating)
        /\ books[i].tags.k = "arr"
        /\ Len(books[i].tags.a) <= TagCap

\* C18: in every reachable state, after a start that seeded or that loaded and
\* migrated a data file, and after any sequence of operations under a clock
\* that never goes back, every record has updatedAt >= createdAt.
C18_UpdatedAfterCreated ==
    \A i \in 1..Len(books) : books[i].updatedAt >= books[i].createdAt

\* the record has all four of the keys migrateDb backfills
Complete(b) ==
    /\ b.tags.k = "arr"
    /\ b.createdAt # NoTime
    /\ b.updatedAt # NoTime
    /\ b.version.k = "num"

\* C19: after a start with no data file, the collection is the seed and the
\* file holds it; after a start with a data file, every record has array
\* tags, a createdAt, an updatedAt and an integer version, the records that
\* had all four are as they were in the file, and the file holds the
\* migrated collection when a record was backfilled.
C19_Startup ==
    [][(~up /\ up') =>
        IF file.st = "none"
        THEN /\ Len(books') = 3
             /\ \A i \in 1..3 :
                    /\ books'[i].id = Txt(<<"b1", "b2", "b3">>[i])
                    /\ books'[i].version = Num(1)
                    /\ books'[i].createdAt = clock
             /\ file'.st = "ok"
             /\ ParseFile(file') = books'
        ELSE /\ Len(books') = Len(ParseFile(file))
             /\ \A i \in 1..Len(books') :
                    /\ Complete(books'[i])
                    /\ Complete(ParseFile(file)[i]) => books'[i] = ParseFile(file)[i]
             /\ (\E i \in 1..Len(books') : ~Complete(ParseFile(file)[i])) =>
                    (file'.st = "ok" /\ ParseFile(file') = books')]_vars

\* C19's case: the server is up on a file whose first record had all four
\* keys and whose second had none of them
C19_Witness ==
    /\ up
    /\ served = 0
    /\ Len(books) = 2
    /\ books[1] = OldBook("b1", Arr(<<"old">>), 0, 0, Num(3))
    /\ books[2] = OldBook("b2", Arr(<<>>), 1, 1, Num(1))
    /\ ParseFile(file) = books

\* the number of records of `list` that q is in, as C24 spells a match out: q,
\* in lower case, is part of the lower-case title, author, id or joined tags
MatchCount(list, q) ==
    Cardinality({i \in 1..Len(list) :
        \/ Includes(ToLowerCase(TextOr(list[i].title, <<>>)), q)
        \/ Includes(ToLowerCase(TextOr(list[i].author, <<>>)), q)
        \/ Includes(ToLowerCase(TextOr(list[i].id, <<>>)), q)
        \/ (list[i].tags.k = "arr" /\ Includes(ToLowerCase(Join(list[i].tags.a)), q))})

\* C20: the meta.total a query returns is the number of records of the
\* collection that match q, whatever limit and offset are.
C20_TotalIsMatchCount ==
    (last.op = "list" /\ last.code = 200) =>
        last.meta.total = MatchCount(books, ToLowerCase(TextOr(last.query.q, <<>>)))

\* C20's case: a query whose q two of four records match was answered with a
\* page of one record
C20_Witness ==
    /\ last.op = "list"
    /\ last.code = 200
    /\ Len(books) = 4
    /\ last.meta.total = 2
    /\ Len(last.list) = 1
    /\ last.query.q # Absent
    /\ last.query.offset # Absent

\* a number of the query is a whole number between lo and hi
WholeBetween(n, lo, hi) == ~n.nan /\ n.x % 10 = 0 /\ n.x >= 10 * lo /\ n.x <= 10 * hi

\* C22: whatever the request's parameters are, the meta of a query holds a
\* limit that is an integer in [1, 100] (20 when the parameter is absent), an
\* offset that is an integer >= 0 (0 when absent), a sort of the whitelist
\* (title when the parameter is not in it) and a dir of asc or desc (asc
\* unless the parameter is desc), and the page has at most limit records.
C22_EffectiveParameters ==
    (last.op = "list" /\ last.code = 200) =>
        /\ WholeBetween(last.meta.limit, MinLimit, MaxLimit)
        /\ last.query.limit = Absent => last.meta.limit = Tenths(10 * DefaultLimit)
        /\ ~last.meta.offset.nan /\ last.meta.offset.x % 10 = 0 /\ last.meta.offset.x >= 0
        /\ last.query.offset = Absent => last.meta.offset = Tenths(0)
        /\ last.meta.sort \in Sortable
        /\ (last.query.sort = Absent \/ last.query.sort.t \notin Sortable)
                => last.meta.sort = "title"
        /\ last.meta.dir \in {"asc", "desc"}
        /\ last.meta.dir = "desc"
                <=> ToLowerCase(TextOr(last.query.dir, <<>>)) = Spelling["desc"]
        /\ 10 * Len(last.list) <= last.meta.limit.x

\* where the record is in the collection
PositionIn(bs, b) == CHOOSE i \in 1..Len(bs) : bs[i] = b

\* a's key under `s` is greater than b's, a missing value being ''
KeyGreater(a, b, s) == Greater(SortKey(a, s), SortKey(b, s))

\* the ratings of the collection are all there and differ from each other
DistinctRatings(bs) ==
    /\ \A i \in 1..Len(bs) : bs[i].rating.k = "num"
    /\ \A i, j \in 1..Len(bs) : bs[i].rating = bs[j].rating => i = j

\* C23: the records of a query result are in the order of the effective sort
\* key, ascending for asc and descending for desc, a missing value counting
\* as the empty string, and records with equal keys are in the order they
\* have in the collection; sort=rating, dir=desc, limit=1, offset=1 over
\* three records with distinct ratings returns the second-highest-rated one.
C23_Ordered ==
    (last.op = "list" /\ last.code = 200) =>
        /\ \A i, j \in 1..Len(last.list) : i < j =>
            LET a == last.list[i]
                b == last.list[j]
            IN  /\ last.meta.dir = "asc" => ~KeyGreater(a, b, last.meta.sort)
                /\ last.meta.dir = "desc" => ~KeyGreater(b, a, last.meta.sort)
                /\ SortKey(a, last.meta.sort) = SortKey(b, last.meta.sort)
                        => PositionIn(books, a) < PositionIn(books, b)
        /\ ( /\ Len(books) = 3 /\ DistinctRatings(books)
             /\ last.meta.q = <<>> /\ last.meta.sort = "rating" /\ last.meta.dir = "desc"
             /\ last.meta.limit = Tenths(10) /\ last.meta.offset = Tenths(10) )
            => /\ Len(last.list) = 1
               /\ Cardinality({i \in 1..3 : KeyGreater(books[i], last.list[1], "rating")}) = 1

\* q, in lower case, is part of the record's lower-case title, author, id or
\* comma-joined tags
Contains(b, q) ==
    \/ Includes(ToLowerCase(TextOr(b.title, <<>>)), q)
    \/ Includes(ToLowerCase(TextOr(b.author, <<>>)), q)
    \/ Includes(ToLowerCase(TextOr(b.id, <<>>)), q)
    \/ (b.tags.k = "arr" /\ Includes(ToLowerCase(Join(b.tags.a)), q))

\* C24: a query succeeds on every collection the store can hold, and a record
\* is in its filtered set exactly when q, without regard to case, is part of
\* its title, author, id or comma-joined tags; an empty q takes every record.
C24_Filter ==
    last.op = "list" =>
        /\ last.code \in {200, 304}
        /\ last.code = 200 =>
            /\ \A i \in 1..Len(last.list) : Contains(last.list[i], last.meta.q)
            /\ Len(last.list) = last.meta.total =>
                    \A i \in 1..Len(books) :
                        Contains(books[i], last.meta.q) =>
                            \E j \in 1..Len(last.list) : last.list[j] = books[i]
            /\ last.meta.q = <<>> => last.meta.total = Len(books)

\* the caller has all the pages: the next offset is at or beyond meta.total,
\* or it has asked for as many pages as a caller asks for
PagesTaken ==
    /\ last.op = "page"
    /\ last.code = 200
    /\ (~MorePages(last.meta) \/ served = MaxPages)

\* C21: with no mutation in between, the pages for offset = 0, limit,
\* 2*limit, ... up to meta.total, one after the other, are the filtered and
\* sorted sequence: every matching record once, in the order of the sort.
C21_PagesConcatenate ==
    PagesTaken =>
        /\ \A i \in 1..Len(books) :
                Cardinality({j \in 1..Len(last.seen) : last.seen[j] = books[i]})
                    = IF Contains(books[i], last.meta.q) THEN 1 ELSE 0
        /\ \A i, j \in 1..Len(last.seen) : i < j =>
                /\ last.meta.dir = "asc"
                        => ~KeyGreater(last.seen[i], last.seen[j], last.meta.sort)
                /\ last.meta.dir = "desc"
                        => ~KeyGreater(last.seen[j], last.seen[i], last.meta.sort)

\* how often the key occurs, and where it occurs first
Occurrences(keys, k) == Cardinality({i \in 1..Len(keys) : keys[i] = k})

FirstAt(keys, k) == CHOOSE i \in 1..Len(keys) : keys[i] = k /\ \A j \in 1..(i - 1) : keys[j] # k

\* `top` is a top list of the keys: at most 5 entries, each with its number
\* of occurrences, the larger count first and, of equal counts, the key met
\* first in the collection first; no key left out occurs more often than one
\* that is in
TopOf(top, keys) ==
    /\ Len(top) <= TopCap
    /\ \A i \in 1..Len(top) :
        /\ \E j \in 1..Len(keys) : keys[j] = top[i].key
        /\ top[i].count = Occurrences(keys, top[i].key)
    /\ \A i, j \in 1..Len(top) : i < j =>
        /\ top[i].count >= top[j].count
        /\ top[i].key # top[j].key
        /\ top[i].count = top[j].count
                => FirstAt(keys, top[i].key) < FirstAt(keys, top[j].key)
    /\ \A j \in 1..Len(keys) :
            (\A i \in 1..Len(top) : top[i].key # keys[j]) =>
                /\ Len(top) = TopCap
                /\ \A i \in 1..Len(top) : top[i].count >= Occurrences(keys, keys[j])

\* C25: stats returns count = the number of records, avgRating = null exactly
\* when no record has a rating, and topAuthors and topTags as top lists of
\* the authors and of the tags of the collection.
C25_Stats ==
    last.op = "stats" =>
        /\ last.stats.count = Len(books)
        /\ last.stats.avgRating.null
                <=> \A i \in 1..Len(books) : ~NotNullish(books[i].rating)
        /\ TopOf(last.stats.topAuthors, AuthorKeys(books))
        /\ TopOf(last.stats.topTags, TagKeys(books))

\* the step is a read answering a request: get by id, list, stats or health
AnswersRead == last'.n # last.n /\ last'.op \in {"get", "list", "stats", "health"}

\* C26: a read (get by id, a query with any parameters, stats, health)
\* leaves the collection in memory as it was, in membership, order and every
\* field, and writes neither data.json nor data.json.tmp.
C26_ReadsChangeNothing ==
    [][AnswersRead => (books' = books /\ file' = file /\ tmp' = tmp)]_vars

\* C26's case: a query with no filter was answered with the whole collection
\* in another order than the collection's, and the collection is still one
\* of those the queries started on
C26_Witness ==
    /\ last.op = "list"
    /\ last.code = 200
    /\ last.meta.q = <<>>
    /\ Len(last.list) = Len(books)
    /\ last.list # books
    /\ books \in QueryCollections

\* The step is a create, an update, a delete or an item of an import whose
\* persist threw: the record is in memory, data.json.tmp is torn, and the
\* server goes on.
WriteFailed ==
    /\ up /\ up'
    /\ books' # books
    /\ tmp' = "torn"
    /\ (last'.n # last.n \/ Len(bulk'.added) > Len(bulk.added))

\* C27: when the write fails in the persist of a create, an update, a delete
\* or an item of a bulk import, it is not tried again and the caller is told
\* INTERNAL: the request, or the item in the import's result, carries that
\* code and no other, and is not reported as done.
C27_WriteFailureIsInternal ==
    [][WriteFailed =>
        /\ file' = file
        /\ IF last'.n # last.n
           THEN last'.code = 500 /\ last'.err = "INTERNAL"
           ELSE /\ ~bulk'.added[Len(bulk'.added)].ok
                /\ bulk'.added[Len(bulk'.added)].err = "INTERNAL"]_vars

\* the step is a create, an update or a delete answered 500 INTERNAL: its
\* persist threw
FailedWriteOf(op) ==
    Answers(op) /\ last'.code = 500 /\ last'.err = "INTERNAL"

\* C30: when the write fails in createBook, updateBook or deleteBook, the
\* change stays in memory and is not in the file; a read afterwards returns
\* what is in memory; and a later operation whose persist succeeds writes the
\* whole collection in memory, that change with its own.
C30_NoRollback ==
    [][ /\ FailedWriteOf("create") =>
            /\ Len(books') = Len(books) + 1
            /\ SubSeq(books', 1, Len(books)) = books
            /\ AsCreated(books'[Len(books')], last'.input)
            /\ file' = file
        /\ FailedWriteOf("update") =>
            /\ Len(books') = Len(books)
            /\ books'[FindIndex(books, last'.id)]
                    = Updated(Target(last'.id), validateBook(last'.input, TRUE).value, clock)
            /\ file' = file
        /\ FailedWriteOf("delete") =>
            /\ Len(books') = Len(books) - 1
            /\ books' = Splice(books, FindIndex(books, last'.id))
            /\ file' = file
        /\ Answers("get") =>
            IF Found(books, last'.id)
            THEN last'.code = 200 /\ last'.book = Target(last'.id)
            ELSE last'.code = 404
        /\ (up /\ up' /\ file' # file) => ParseFile(file') = books'
      ]_vars

\* C30's case: a create was answered 500 INTERNAL; the record it made is the
\* fourth in memory while data.json holds the three records of the seed
C30_Witness ==
    /\ up
    /\ last.op = "create"
    /\ last.code = 500
    /\ Len(books) = 4
    /\ AsCreated(books[4], last.input)
    /\ file.st = "ok"
    /\ ParseFile(file) = SubSeq(books, 1, 3)

-----------------------------------------------------------------------------
(* The rate limit *)

\* the entries of a bag of times that lie in from..to
Within(bag, from, to) ==
    BagCardinality([t \in {u \in BagToSet(bag) : from <= u /\ u <= to} |-> CopiesIn(t, bag)])

\* this step is a request of `ip`; one that is not an OPTIONS request
Asks(ip) == log'[ip] # log[ip]
AsksRoute(ip) == log'[ip].made # log[ip].made

\* every request of `ip` that was answered, OPTIONS included
Answered(l) == l.served (+) l.options
Sent(l) == l.made (+) l.options

\* C29 as stated: per IP at most 100 requests are served in any 5-minute
\* window; a request of an IP that has made 100 requests in the preceding
\* 5 minutes is answered 429 RATE_LIMIT and changes nothing; a request of
\* an IP that has sent nothing for 5 minutes is served.
C29_RateLimit ==
    [][ \A ip \in Ips :
          /\ \A t \in BagToSet(Answered(log'[ip])) :
                Within(Answered(log'[ip]), t, t + HORIZON - 1) <= LIMIT
          /\ (Asks(ip) /\ Within(Sent(log[ip]), clock - HORIZON + 1, clock) >= LIMIT) =>
                /\ last'.code = 429
                /\ last'.err = "RATE_LIMIT"
                /\ books' = books
                /\ file' = file
          /\ (Asks(ip) /\ Within(Sent(log[ip]), clock - HORIZON + 1, clock) = 0) =>
                last'.code # 429
      ]_vars

\* C29, amended: per IP at most 100 requests other than OPTIONS are served
\* in any window of 5 minutes, both ends included; a request other than
\* OPTIONS is answered 429 RATE_LIMIT, without reaching a route and without
\* changing the collection or the file, exactly when its IP has made 100 or
\* more such requests (rejected ones included) in the 5 minutes up to now,
\* those exactly 5 minutes old included; so the next request of an IP that
\* has sent none for more than 5 minutes is served. An OPTIONS request is
\* answered before the limiter: it is never counted and never rejected.
C29_RateLimitAmended ==
    [][ \A ip \in Ips :
          /\ \A t \in BagToSet(log'[ip].served) :
                Within(log'[ip].served, t, t + HORIZON) <= LIMIT
          /\ AsksRoute(ip) =>
                IF Within(log[ip].made, clock - HORIZON, clock) >= LIMIT
                THEN /\ last' = TooMany(last.n + 1)
                     /\ log'[ip].served = log[ip].served
                     /\ books' = books
                     /\ file' = file
                ELSE /\ last'.code # 429
                     /\ last'.op \in {"health", "delete"}
                     /\ log'[ip].served = Logged(log[ip].served, clock)
          /\ (AsksRoute(ip) /\ Within(log[ip].made, clock - HORIZON, clock) = 0) =>
                last'.code # 429
          /\ (Asks(ip) /\ ~AsksRoute(ip)) =>
                /\ last'.op = "options"
                /\ last'.code = 200
                /\ ipHits' = ipHits
      ]_vars

\* IP "a" was served 100 requests, sent nothing for more than 5 minutes, was
\* served 100 more while b1 was still there, and has just been rejected
C29_Witness ==
    /\ last.op = "limited"
    /\ clock = HORIZON + 1
    /\ CopiesIn(0, log["a"].served) = LIMIT
    /\ CopiesIn(HORIZON + 1, log["a"].served) = LIMIT
    /\ Found(books, Txt("b1"))

-----------------------------------------------------------------------------
(* The version field of the form *)

\* this step is the Update request of tab c
Updates(c) ==
    /\ last'.n # last.n
    /\ last'.op = "update"
    /\ Len(form'[c].wait) > Len(form[c].wait)

\* C28: an Update request of a tab carries the version its form loaded last,
\* 0 when it loaded none; it is rejected with a version conflict, and changes
\* nothing, when another tab has updated the record since that load; and when
\* the form holds the version a successful update returned and no other tab
\* has updated the record since, the form's next update succeeds.
C28_FormVersion ==
    [][ \A c \in Clients :
          Updates(c) =>
            /\ last'.input.version = SentVersion(form[c].version)
            /\ form[c].by = "none" => last'.input.version = Num(0)
            /\ last'.id \in form[c].stale =>
                    /\ last'.code = 409
                    /\ last'.err = "VERSION_CONFLICT"
                    /\ books' = books
            /\ (form[c].by = "update" /\ last'.id = form[c].id
                                      /\ last'.id \notin form[c].stale) =>
                    last'.code = 200
      ]_vars

-----------------------------------------------------------------------------
(* The pager *)

\* C31: state.offset is a non-negative multiple of state.limit, and when the
\* refresh applied last reported a total above 0, state.offset is below
\* state.total.
C31_Pager ==
    /\ state.offset >= 0
    /\ state.limit > 0
    /\ state.offset % state.limit = 0
    /\ state.total > 0 => state.offset < state.total

====
